---- MODULE Spec2Model ----
(***************************************************************************)
(* State-machine model of the CAD viewer backend (src/backend/app): the    *)
(* users, refresh_tokens and files tables, the upload directory, and one   *)
(* action per HTTP handler of the auth, users and files routers.  Each     *)
(* action is one whole request: dependency resolution (get_current_user),  *)
(* the handler body, its commit, and the response it returns (resp).       *)
(***************************************************************************)
EXTENDS Integers, Sequences, FiniteSets, TLC

(***************************************************************************)
(* Bounds of the model.  Time is counted in abstract ticks; token          *)
(* lifetimes and byte sizes are scaled down to a few units so that expiry  *)
(* and quota exhaustion happen inside the bounds.                          *)
(***************************************************************************)
MaxTime == 3
MaxUsers == 2
MaxRefreshTokens == 2
MaxFiles == 2
\* files uploaded in the access-control specification
MaxHeldFiles == 1
\* cap on the views and downloads served (view_count, download_count)
MaxCount == 2
\* longest run of filler characters in a password under test
MaxPad == 9
\* largest page number requested
MaxPage == 3
\* database sessions made over a run
MaxSessions == 4
\* settings.ACCESS_TOKEN_EXPIRE_MINUTES (7 days) in ticks
AccessTokenExpire == 2
\* settings.REFRESH_TOKEN_EXPIRE_MINUTES (30 days) in ticks
RefreshTokenExpire == 3
\* User.storage_quota default (1 GiB) in size units
StorageQuota == 3
\* settings.MAX_UPLOAD_SIZE (100 MB) in size units
MaxUploadSize == 2
\* generate_password_reset_token: timedelta(hours=1) in ticks
ResetTokenExpire == 1
\* PaginationParams.__init__: per_page: int = 20
DefaultPerPage == 20
\* PaginationParams.__init__: max_per_page: int = 100
DefaultMaxPerPage == 100
\* settings.RATE_LIMIT_REQUESTS (100) scaled down
RateLimitRequests == 3
\* settings.RATE_LIMIT_PERIOD (60 seconds) in ticks
RateLimitPeriod == 2

Emails == {"ann@cad.io", "bob@cad.io"}
UserRole == {"user", "admin", "moderator"}
Secrets == {"S1", "S2"}
ApiKeys == {"key1", "key2"}

NoSecret == "none"
NoKey == "none"
\* a null User.api_key (the column holds the hash of a key)
NoHash == <<"none", "">>
NoCode == <<"none", 0>>
NoTime == -1

(***************************************************************************)
(* Passwords are sequences of characters; validate_password inspects them. *)
(***************************************************************************)
UpperChars == {"A", "B", "C", "D", "E", "F", "G", "H", "I", "J", "K", "L", "M",
               "N", "O", "P", "Q", "R", "S", "T", "U", "V", "W", "X", "Y", "Z"}
LowerChars == {"a", "b", "c", "d", "e", "f", "g", "h", "i", "j", "k", "l", "m",
               "n", "o", "p", "q", "r", "s", "t", "u", "v", "w", "x", "y", "z"}
DigitChars == {"0", "1", "2", "3", "4", "5", "6", "7", "8", "9"}
SpecialChars == {"!", "@", "#", "$", "%", "^", "&", "*", "(", ")", "_", "+", "-",
                 "=", "[", "]", "{", "}", "|", ";", ":", ",", ".", "<", ">", "?"}

HasUpper(password) == \E i \in 1..Len(password) : password[i] \in UpperChars
HasLower(password) == \E i \in 1..Len(password) : password[i] \in LowerChars
HasDigit(password) == \E i \in 1..Len(password) : password[i] \in DigitChars
HasSpecial(password) == \E i \in 1..Len(password) : password[i] \in SpecialChars

\* a policy that accepts every password
validate_password_any(password) == <<TRUE, "Password is valid">>

\* the digit rule tested before the letter rules
validate_password_digit_first(password) ==
    IF Len(password) < 8
    THEN <<FALSE, "Password must be at least 8 characters long">>
    ELSE IF ~HasDigit(password)
    THEN <<FALSE, "Password must contain at least one digit">>
    ELSE IF ~HasUpper(password)
    THEN <<FALSE, "Password must contain at least one uppercase letter">>
    ELSE IF ~HasLower(password)
    THEN <<FALSE, "Password must contain at least one lowercase letter">>
    ELSE IF ~HasSpecial(password)
    THEN <<FALSE, "Password must contain at least one special character">>
    ELSE <<TRUE, "Password is valid">>

validate_password(password) ==
    IF Len(password) < 8
    THEN <<FALSE, "Password must be at least 8 characters long">>
    ELSE IF ~HasUpper(password)
    THEN <<FALSE, "Password must contain at least one uppercase letter">>
    ELSE IF ~HasLower(password)
    THEN <<FALSE, "Password must contain at least one lowercase letter">>
    ELSE IF ~HasDigit(password)
    THEN <<FALSE, "Password must contain at least one digit">>
    ELSE IF ~HasSpecial(password)
    THEN <<FALSE, "Password must contain at least one special character">>
    ELSE <<TRUE, "Password is valid">>

StrongPw == <<"C", "a", "d", "V", "i", "e", "w", "3", "!">>
OtherPw == <<"M", "e", "s", "h", "2", "0", "2", "6", "#">>
WeakPw == <<"c", "a", "d", "v", "i", "e", "w", "e", "r">>
ShortPw == <<"C", "a", "d", "1", "!">>

\* pwd_context.hash / pwd_context.verify: a one-way tag of the plain password
get_password_hash(password) == <<"bcrypt", password>>
verify_password(plain_password, hashed_password) ==
    hashed_password = <<"bcrypt", plain_password>>

\* hashlib.sha256(api_key).hexdigest()
hash_api_key(api_key) == <<"sha256", api_key>>

(***************************************************************************)
(* JWTs.  A token string is modelled by the claims it carries plus sig,    *)
(* which says whether it is signed with settings.SECRET_KEY.  Garbage is   *)
(* any string that does not verify; NoToken is an absent (None) token.     *)
(***************************************************************************)
Jwt(type, sub, exp, jti) ==
    [type |-> type, sub |-> sub, exp |-> exp, jti |-> jti, sig |-> TRUE]
Garbage == [type |-> "garbage", sub |-> "", exp |-> 0, jti |-> 0, sig |-> FALSE]
NoToken == [type |-> "none", sub |-> "", exp |-> 0, jti |-> 0, sig |-> FALSE]

VARIABLES
    now,             \* datetime.utcnow(), in ticks
    users,           \* rows of table users
    refresh_tokens,  \* rows of table refresh_tokens
    access_tokens,   \* access tokens handed out to clients so far
    files,           \* rows of table files
    disk,            \* paths present under settings.UPLOAD_DIR
    next_user_id,    \* next primary key of users
    next_file_id,    \* next primary key of files
    logged_out,      \* history: token strings a logout has revoked
    requests,        \* rate_limiter.requests: key -> recorded timestamps
    outbox,          \* password reset tokens mailed by background tasks
    pending,         \* per worker, the registration between its SELECT and its commit
    sessions,        \* database sessions: made so far, open, and per worker the one of its request
    resp             \* response of the request handled by the last step

vars == <<now, users, refresh_tokens, access_tokens, files, disk,
          next_user_id, next_file_id, logged_out, requests, outbox,
          pending, sessions, resp>>

dbvars == <<users, refresh_tokens, files, disk, next_user_id, next_file_id>>

NoUser == [id |-> 0]

\* server processes that handle requests side by side
Workers == {"w1", "w2"}
NoBody == <<>>
NoPending == [w \in Workers |-> NoBody]

\* no session made yet, no request being handled
NoSessions == [made |-> 0, open |-> {}, of |-> [w \in Workers |-> 0]]

\* RateLimiter.__init__: self.requests = {} (a key not yet seen has no
\* timestamps)
ClientKeys == {"10.0.0.1", "10.0.0.2"}
NoRequests == [key \in ClientKeys |-> <<>>]

\* the User row register builds: model defaults for every other column
NewUser(id, email, password, role, active) ==
    [id |-> id,
     email |-> email,
     hashed_password |-> get_password_hash(password),
     is_active |-> active,
     role |-> role,
     two_factor_enabled |-> FALSE,
     two_factor_secret |-> NoSecret,
     last_login |-> NoTime,
     storage_quota |-> StorageQuota,
     storage_used |-> 0,
     api_key |-> NoHash]

\* the response record, with the request it answers: tok, target and req are
\* what the client sent, uid is the user the request was resolved to (0 if
\* none); fields not used by an operation keep their defaults
Response(op, status, detail) ==
    [op |-> op, status |-> status, detail |-> detail,
     tok |-> NoToken, uid |-> 0, fid |-> 0, target |-> 0, access |-> NoToken,
     refresh |-> NoToken, req |-> <<>>]
Idle == Response("idle", 0, "")

\* SecurityManager.create_access_token(subject): exp = utcnow + lifetime
create_access_token(subject) ==
    Jwt("access", subject, now + AccessTokenExpire, 0)

\* SecurityManager.create_refresh_token(subject): jti is a fresh random id
create_refresh_token(subject) ==
    Jwt("refresh", subject, now + RefreshTokenExpire,
        Cardinality(refresh_tokens) + 1)

\* jwt.decode accepts a token signed with the key whose exp has not passed
DecodeOk(token) == token.sig /\ token.exp >= now

\* is_valid without the revoked flag
is_valid_ignoring_revoked(stored_token) == stored_token.expires_at > now
\* is_valid without the expiry
is_valid_ignoring_expiry(stored_token) == ~stored_token.revoked

\* RefreshToken.is_valid
is_valid(stored_token) ==
    ~stored_token.revoked /\ stored_token.expires_at > now

\* select(User).where(User.email == email).first()
UserByEmail(email) ==
    IF \E u \in users : u.email = email
    THEN CHOOSE u \in users : u.email = email
    ELSE NoUser

\* select(User).where(User.api_key == hashed_key).first()
UserByApiKey(hashed_key) ==
    IF \E u \in users : u.api_key = hashed_key
    THEN CHOOSE u \in users : u.api_key = hashed_key
    ELSE NoUser

\* db.get(User, user_id)
UserById(user_id) ==
    IF \E u \in users : u.id = user_id
    THEN CHOOSE u \in users : u.id = user_id
    ELSE NoUser

\* select(RefreshToken).where(RefreshToken.token == token).first()
StoredToken(token) ==
    IF \E rt \in refresh_tokens : rt.token = token
    THEN CHOOSE rt \in refresh_tokens : rt.token = token
    ELSE [id |-> 0]

\* the row u of users replaced by v
UpdateUser(u, v) == (users \ {u}) \cup {v}

\* pyotp.TOTP(secret).at(t): the code of a secret for a time step
Totp(secret, t) == <<secret, t>>
\* verify_token accepting the code of any secret
verify_token_any_secret(secret, token) ==
    \E s \in Secrets, d \in {-1, 0, 1} : token = Totp(s, now + d)
\* verify_token accepting the secret's code of any time step
verify_token_any_time(secret, token) ==
    \E t \in 0..MaxTime : token = Totp(secret, t)

\* TwoFactorAuth.verify_token: totp.verify(token, valid_window=1)
verify_token(secret, token) ==
    \E d \in {-1, 0, 1} : token = Totp(secret, now + d)

(***************************************************************************)
(* What a client can send: the tokens it was handed, or anything unsigned. *)
(***************************************************************************)
IssuedTokens == access_tokens \cup {rt.token : rt \in refresh_tokens}
TokenInputs == IssuedTokens \cup {Garbage}
Credentials ==
    {[token |-> t, api_key |-> NoKey] : t \in TokenInputs \cup {NoToken}}
    \cup {[token |-> NoToken, api_key |-> k] : k \in ApiKeys}
BearerCredentials == {[token |-> t, api_key |-> NoKey] : t \in access_tokens}
ExistingIds == {u.id : u \in users}
CodeInputs == {NoCode} \cup {Totp(s, t) : s \in Secrets, t \in 0..MaxTime}

(***************************************************************************)
(* deps.get_current_user: the bearer token first, the API key only when    *)
(* no token is supplied.  The result is the user or the error raised.      *)
(***************************************************************************)
AuthError(status, detail) == [ok |-> FALSE, status |-> status, detail |-> detail, user |-> NoUser]
\* get_current_user without its test of user.is_active
AuthUserWhateverActive(user) ==
    IF user = NoUser THEN AuthError(401, "Not authenticated")
    ELSE [ok |-> TRUE, status |-> 200, detail |-> "", user |-> user]

\* the end of get_current_user: no user, or a user who is not active, is 401
AuthUser(user) ==
    IF user = NoUser THEN AuthError(401, "Not authenticated")
    ELSE IF ~user.is_active THEN AuthError(401, "User account is disabled")
    ELSE [ok |-> TRUE, status |-> 200, detail |-> "", user |-> user]

\* get_current_user trying the API key when the token is refused
get_current_user_key_fallback(cred) ==
    LET by_token ==
            IF cred.token # NoToken /\ DecodeOk(cred.token)
               /\ cred.token.sub # "" /\ cred.token.type = "access"
            THEN UserByEmail(cred.token.sub)
            ELSE NoUser
    IN
    IF by_token # NoUser THEN AuthUser(by_token)
    ELSE IF cred.api_key # NoKey
    THEN AuthUser(UserByApiKey(hash_api_key(cred.api_key)))
    ELSE AuthUser(NoUser)

get_current_user(cred) ==
    IF cred.token # NoToken
    THEN IF ~DecodeOk(cred.token)
         THEN AuthError(401, "Could not validate credentials")
         ELSE IF cred.token.sub = "" \/ cred.token.type # "access"
         THEN AuthError(401, "Invalid token")
         ELSE AuthUser(UserByEmail(cred.token.sub))
    ELSE IF cred.api_key # NoKey
    THEN AuthUser(UserByApiKey(hash_api_key(cred.api_key)))
    ELSE AuthUser(NoUser)

\* an API key stored for a user: generate_api_key, hash_api_key and the
\* api_key column; the keys are random, so no two users hold the same one
api_key_issued(user_id, api_key) ==
    LET user == UserById(user_id) IN
    /\ user.id # 0
    /\ UserByApiKey(hash_api_key(api_key)).id = 0
    /\ users' = UpdateUser(user, [user EXCEPT !.api_key = hash_api_key(api_key)])
    /\ resp' = Idle
    /\ UNCHANGED <<now, refresh_tokens, access_tokens, files, disk,
                   next_user_id, next_file_id, logged_out, requests, outbox, pending, sessions>>

\* deps.get_current_moderator_user: admins and moderators pass
get_current_moderator_user(cred) ==
    LET a == get_current_user(cred) IN
    IF ~a.ok THEN a
    ELSE IF ~a.user.is_active
    THEN [AuthError(403, "Inactive user") EXCEPT !.user = a.user]
    ELSE IF a.user.role \notin {"admin", "moderator"}
    THEN [AuthError(403, "You don't have permission to Moderator access required")
            EXCEPT !.user = a.user]
    ELSE a

\* deps.get_current_admin_user (through get_current_active_user)
get_current_admin_user(cred) ==
    LET a == get_current_user(cred) IN
    IF ~a.ok THEN a
    ELSE IF ~a.user.is_active
    THEN [AuthError(403, "Inactive user") EXCEPT !.user = a.user]
    ELSE IF a.user.role # "admin"
    THEN [AuthError(403, "You don't have permission to Admin access required")
            EXCEPT !.user = a.user]
    ELSE a

Init ==
    /\ now = 0
    /\ users = {}
    /\ refresh_tokens = {}
    /\ access_tokens = {}
    /\ files = {}
    /\ disk = {}
    /\ next_user_id = 1
    /\ next_file_id = 1
    /\ logged_out = {}
    /\ requests = NoRequests
    /\ outbox = {}
    /\ pending = NoPending
    /\ sessions = NoSessions
    /\ resp = Idle

\* time passes between requests
Tick ==
    /\ now < MaxTime
    /\ now' = now + 1
    /\ resp' = Idle
    /\ UNCHANGED <<dbvars, access_tokens, logged_out, requests, outbox, pending, sessions>>

\* the response to a request whose credentials were refused
AuthFailure(op, auth) ==
    [Response(op, auth.status, auth.detail) EXCEPT !.uid = auth.user.id]

\* a request that fails: only the response changes
Reject(r) ==
    /\ resp' = r
    /\ UNCHANGED <<now, dbvars, access_tokens, logged_out, requests, outbox, pending, sessions>>

\* a client receives an access token and keeps it in place of its last one
Hand(access_token) ==
    {a \in access_tokens : a.sub # access_token.sub} \cup {access_token}

(***************************************************************************)
(* api/v1/auth.py                                                          *)
(***************************************************************************)
\* a field of the request body left out or given: <<>> or <<value>>
Given(field, default) == IF field = <<>> THEN default ELSE field[1]

\* the role stored whatever the body says
BodyRoleIgnored(role) == "user"

\* UserBase.role: UserRole = UserRole.USER
BodyRole(role) == Given(role, "user")

\* UserBase.is_active: bool = True
BodyActive(active) == Given(active, TRUE)

\* a table without the unique index on email
NoUniqueIndex(email) == FALSE

\* the unique index on users.email refuses the INSERT
UniqueViolation(email) == UserByEmail(email).id # 0

\* register, up to the lookup of the email: the response of the check that
\* fails, or Idle when all pass.  The body is validated by UserCreate (422),
\* the password by validate_password (InvalidPassword, 400);
\* validate_passwords_match raises a ValueError no handler catches (500)
RegisterRaises(body) ==
    IF \/ Len(body.password) < 8 \/ Len(body.password_confirm) < 8
       \/ (body.role # <<>> /\ body.role[1] \notin UserRole)
    THEN Response("register", 422, "Validation error")
    ELSE IF ~validate_password(body.password)[1]
    THEN Response("register", 400, validate_password(body.password)[2])
    ELSE IF body.password # body.password_confirm
    THEN Response("register", 500, "Internal Server Error")
    ELSE IF UserByEmail(body.email).id # 0
    THEN [Response("register", 409, "User with email already exists")
            EXCEPT !.uid = UserByEmail(body.email).id]
    ELSE Idle

\* register, from User(...) to the response: db.add, db.commit.  The commit
\* fails with an IntegrityError (500) when the email has been taken meanwhile
InsertUser(body) ==
    IF UniqueViolation(body.email)
    THEN /\ resp' = [Response("register", 500, "Internal Server Error")
                       EXCEPT !.req = body]
         /\ UNCHANGED <<users, next_user_id>>
    ELSE /\ next_user_id <= MaxUsers
         /\ users' = users \cup
                {NewUser(next_user_id, body.email, body.password,
                         BodyRole(body.role), BodyActive(body.active))}
         /\ next_user_id' = next_user_id + 1
         /\ resp' = [Response("register", 200, "")
                       EXCEPT !.uid = next_user_id, !.req = body]

RegisterBody(email, password, password_confirm, role, active) ==
    [email |-> email, password |-> password,
     password_confirm |-> password_confirm, role |-> role, active |-> active]

\* POST /auth/register, handled without another request in between
register(email, password, password_confirm, role, active) ==
    LET body == RegisterBody(email, password, password_confirm, role, active) IN
    IF RegisterRaises(body) # Idle
    THEN Reject([RegisterRaises(body) EXCEPT !.req = body])
    ELSE /\ InsertUser(body)
         /\ UNCHANGED <<now, refresh_tokens, access_tokens, files, disk,
                        next_file_id, logged_out, requests, outbox, pending, sessions>>

\* POST /auth/register on worker w, up to the lookup of the email
register_select(w, email, password, password_confirm, role, active) ==
    LET body == RegisterBody(email, password, password_confirm, role, active) IN
    /\ pending[w] = NoBody
    /\ IF RegisterRaises(body) # Idle
       THEN Reject([RegisterRaises(body) EXCEPT !.req = body])
       ELSE /\ pending' = [pending EXCEPT ![w] = body]
            /\ resp' = Idle
            /\ UNCHANGED <<now, dbvars, access_tokens, logged_out, requests,
                           outbox, sessions>>

\* POST /auth/register on worker w, from User(...) to the response
register_commit(w) ==
    /\ pending[w] # NoBody
    /\ InsertUser(pending[w])
    /\ pending' = [pending EXCEPT ![w] = NoBody]
    /\ UNCHANGED <<now, refresh_tokens, access_tokens, files, disk,
                   next_file_id, logged_out, requests, outbox, sessions>>

\* POST /auth/login
login(email, password, two_factor_code) ==
    LET user == UserByEmail(email)
        req == <<email, password, two_factor_code>>
    IN
    IF user.id = 0 \/ ~verify_password(password, user.hashed_password)
    THEN Reject([Response("login", 401, "Invalid email or password")
                  EXCEPT !.req = req])
    ELSE IF user.two_factor_enabled /\ two_factor_code = NoCode
    THEN Reject([Response("login", 401, "Two-factor authentication required")
                  EXCEPT !.uid = user.id, !.req = req])
    ELSE IF user.two_factor_enabled /\ user.two_factor_secret = NoSecret
    THEN Reject([Response("login", 500, "Internal Server Error")
                  EXCEPT !.uid = user.id, !.req = req])
    ELSE IF user.two_factor_enabled
            /\ ~verify_token(user.two_factor_secret, two_factor_code)
    THEN Reject([Response("login", 401, "Invalid two-factor authentication code")
                  EXCEPT !.uid = user.id, !.req = req])
    ELSE LET access_token == create_access_token(user.email)
             refresh_jwt == create_refresh_token(user.email)
         IN /\ Cardinality(refresh_tokens) < MaxRefreshTokens
            /\ users' = UpdateUser(user, [user EXCEPT !.last_login = now])
            /\ refresh_tokens' = refresh_tokens \cup
                   {[id |-> Cardinality(refresh_tokens) + 1,
                     token |-> refresh_jwt,
                     user_id |-> user.id,
                     expires_at |-> now + RefreshTokenExpire,
                     revoked |-> FALSE]}
            /\ access_tokens' = Hand(access_token)
            /\ resp' = [Response("login", 200, "") EXCEPT
                          !.uid = user.id, !.access = access_token,
                          !.refresh = refresh_jwt, !.req = req]
            /\ UNCHANGED <<now, files, disk, next_user_id, next_file_id,
                           logged_out, requests, outbox, pending, sessions>>

\* the exception raised inside the try block of refresh_token, "" if none
RefreshRaises(token) ==
    LET stored_token == StoredToken(token)
        user == UserByEmail(token.sub)
    IN
    IF ~DecodeOk(token) THEN "Could not validate credentials"
    ELSE IF token.sub = "" \/ token.type # "refresh" THEN "Invalid refresh token"
    ELSE IF stored_token.id = 0 \/ ~is_valid(stored_token)
    THEN "Invalid or expired refresh token"
    ELSE IF user.id = 0 \/ ~user.is_active THEN "User not found or inactive"
    ELSE ""

\* the inner exception passed on as it is
RefreshReraise(detail) == detail

\* except Exception: raise HTTPException(401, "Invalid refresh token")
RefreshExcept(detail) == "Invalid refresh token"

\* POST /auth/refresh
refresh_token(token) ==
    IF RefreshRaises(token) # ""
    THEN Reject([Response("refresh", 401, RefreshExcept(RefreshRaises(token)))
                  EXCEPT !.tok = token])
    ELSE LET user == UserByEmail(token.sub)
             access_token == create_access_token(user.email)
         IN /\ access_tokens' = Hand(access_token)
            /\ resp' = [Response("refresh", 200, "") EXCEPT
                          !.tok = token, !.uid = user.id,
                          !.access = access_token]
            /\ UNCHANGED <<now, dbvars, logged_out, requests, outbox, pending, sessions>>

\* every refresh token of the row's user revoked
RevokedAllOfUser(stored_token) ==
    {IF rt.user_id = stored_token.user_id THEN [rt EXCEPT !.revoked = TRUE]
     ELSE rt : rt \in refresh_tokens}

\* logout: stored_token.revoked = True
Revoked(stored_token) ==
    (refresh_tokens \ {stored_token})
        \cup {[stored_token EXCEPT !.revoked = TRUE]}

\* POST /auth/logout
logout(token) ==
    LET stored_token == StoredToken(token) IN
    /\ resp' = [Response("logout", 200, "Successfully logged out")
                  EXCEPT !.tok = token]
    /\ IF token # NoToken /\ stored_token.id # 0
       THEN /\ refresh_tokens' = Revoked(stored_token)
            /\ logged_out' = logged_out \cup {token}
       ELSE UNCHANGED <<refresh_tokens, logged_out>>
    /\ UNCHANGED <<now, users, access_tokens, files, disk, next_user_id,
                   next_file_id, requests, outbox, pending, sessions>>

\* SecurityManager.generate_password_reset_token(email)
generate_password_reset_token(email) ==
    Jwt("password_reset", email, now + ResetTokenExpire, 0)

\* a message that tells whether the account exists
ResetMessageRevealing(user) ==
    IF user.id = 0 THEN "No account with this email"
    ELSE "If the email exists, a password reset link has been sent"

\* request_password_reset: message
ResetMessage(user) == "If the email exists, a password reset link has been sent"

\* POST /auth/password-reset; emails_enabled is settings.emails_enabled
request_password_reset(email, emails_enabled) ==
    LET user == UserByEmail(email) IN
    /\ outbox' = IF user.id # 0 /\ emails_enabled
                 THEN outbox \cup {generate_password_reset_token(user.email)}
                 ELSE outbox
    /\ resp' = [Response("password_reset", 200, ResetMessage(user))
                  EXCEPT !.req = <<email>>]
    /\ UNCHANGED <<now, dbvars, access_tokens, logged_out, requests, pending, sessions>>

\* no subject: verify_password_reset_token returns None
NoEmail == ""

\* verify_password_reset_token without the test of the type
verify_password_reset_token_any_type(token) ==
    IF ~(token.sig /\ token.exp >= now) THEN NoEmail ELSE token.sub

\* SecurityManager.verify_password_reset_token(token)
verify_password_reset_token(token) ==
    IF ~(token.sig /\ token.exp >= now) THEN NoEmail
    ELSE IF token.type # "password_reset" THEN NoEmail
    ELSE token.sub

\* POST /auth/password-reset/confirm.  The request body is validated first
\* (min_length 8 on both passwords: 422); validate_passwords_match raises a
\* ValueError that no handler catches (500)
confirm_password_reset(token, new_password, new_password_confirm) ==
    LET req == <<token, new_password, new_password_confirm>>
        email == verify_password_reset_token(token)
        user == UserByEmail(email)
    IN
    IF Len(new_password) < 8 \/ Len(new_password_confirm) < 8
    THEN Reject([Response("password_reset_confirm", 422, "Unprocessable Entity")
                  EXCEPT !.req = req])
    ELSE IF new_password # new_password_confirm
    THEN Reject([Response("password_reset_confirm", 500, "Internal Server Error")
                  EXCEPT !.req = req])
    ELSE IF email = NoEmail
    THEN Reject([Response("password_reset_confirm", 400,
                          "Invalid or expired reset token")
                  EXCEPT !.req = req])
    ELSE IF ~validate_password(new_password)[1]
    THEN Reject([Response("password_reset_confirm", 400,
                          validate_password(new_password)[2])
                  EXCEPT !.req = req])
    ELSE /\ users' = IF user.id # 0
                     THEN UpdateUser(user,
                              [user EXCEPT !.hashed_password =
                                               get_password_hash(new_password)])
                     ELSE users
         /\ resp' = [Response("password_reset_confirm", 200,
                              "Password successfully reset")
                       EXCEPT !.req = req, !.uid = user.id]
         /\ UNCHANGED <<now, refresh_tokens, access_tokens, files, disk,
                        next_user_id, next_file_id, logged_out, requests, outbox, pending, sessions>>

\* the secret stored and two-factor switched on at once
SecretStoredAndEnabled(user, secret) ==
    [user EXCEPT !.two_factor_secret = secret, !.two_factor_enabled = TRUE]

\* current_user.two_factor_secret = secret
SecretStored(user, secret) == [user EXCEPT !.two_factor_secret = secret]

\* POST /auth/2fa/setup; secret is TwoFactorAuth.generate_secret()
setup_two_factor(cred, secret) ==
    LET auth == get_current_user(cred) IN
    IF ~auth.ok
    THEN Reject(AuthFailure("2fa_setup", auth))
    ELSE /\ users' = UpdateUser(auth.user, SecretStored(auth.user, secret))
         /\ resp' = [Response("2fa_setup", 200, secret) EXCEPT !.uid = auth.user.id]
         /\ UNCHANGED <<now, refresh_tokens, access_tokens, files, disk,
                        next_user_id, next_file_id, logged_out, requests, outbox, pending, sessions>>

\* POST /auth/2fa/verify
verify_two_factor(cred, code) ==
    LET auth == get_current_user(cred) IN
    IF ~auth.ok
    THEN Reject(AuthFailure("2fa_verify", auth))
    ELSE IF auth.user.two_factor_secret = NoSecret
    THEN Reject([Response("2fa_verify", 400, "Two-factor authentication not set up")
                  EXCEPT !.uid = auth.user.id, !.req = <<code>>])
    ELSE IF ~verify_token(auth.user.two_factor_secret, code)
    THEN Reject([Response("2fa_verify", 401, "Invalid two-factor authentication code")
                  EXCEPT !.uid = auth.user.id, !.req = <<code>>])
    ELSE /\ users' = UpdateUser(auth.user,
                        [auth.user EXCEPT !.two_factor_enabled = TRUE])
         /\ resp' = [Response("2fa_verify", 200, "Two-factor authentication enabled")
                       EXCEPT !.uid = auth.user.id, !.req = <<code>>]
         /\ UNCHANGED <<now, refresh_tokens, access_tokens, files, disk,
                        next_user_id, next_file_id, logged_out, requests, outbox, pending, sessions>>

\* POST /auth/2fa/disable
disable_two_factor(cred) ==
    LET auth == get_current_user(cred) IN
    IF ~auth.ok
    THEN Reject(AuthFailure("2fa_disable", auth))
    ELSE /\ users' = UpdateUser(auth.user,
                        [auth.user EXCEPT !.two_factor_enabled = FALSE,
                                          !.two_factor_secret = NoSecret])
         /\ resp' = [Response("2fa_disable", 200, "Two-factor authentication disabled")
                       EXCEPT !.uid = auth.user.id]
         /\ UNCHANGED <<now, refresh_tokens, access_tokens, files, disk,
                        next_user_id, next_file_id, logged_out, requests, outbox, pending, sessions>>

\* the UPDATE a commit flushes for the User object of verify_two_factor: the
\* one column the handler assigned, on the row as it is by then
FlushTwoFactorEnabled(current_user) ==
    {IF u.id = current_user.id THEN [u EXCEPT !.two_factor_enabled = TRUE] ELSE u :
        u \in users}

\* POST /auth/2fa/verify on worker w, from get_current_user to the check of
\* the code against the secret of the User as loaded
verify_two_factor_checked(w, cred, code) ==
    LET auth == get_current_user(cred) IN
    /\ pending[w] = NoBody
    /\ IF ~auth.ok
       THEN Reject(AuthFailure("2fa_verify", auth))
       ELSE IF auth.user.two_factor_secret = NoSecret
       THEN Reject([Response("2fa_verify", 400, "Two-factor authentication not set up")
                     EXCEPT !.uid = auth.user.id, !.req = <<code>>])
       ELSE IF ~verify_token(auth.user.two_factor_secret, code)
       THEN Reject([Response("2fa_verify", 401, "Invalid two-factor authentication code")
                     EXCEPT !.uid = auth.user.id, !.req = <<code>>])
       ELSE /\ pending' = [pending EXCEPT ![w] =
                             [op |-> "2fa_verify", current_user |-> auth.user,
                              code |-> code]]
            /\ resp' = Idle
            /\ UNCHANGED <<now, dbvars, access_tokens, logged_out, requests,
                           outbox, sessions>>

\* POST /auth/2fa/verify on worker w: two_factor_enabled = True and the commit
verify_two_factor_commit(w) ==
    /\ pending[w] # NoBody
    /\ pending[w].op = "2fa_verify"
    /\ users' = FlushTwoFactorEnabled(pending[w].current_user)
    /\ resp' = [Response("2fa_verify", 200, "Two-factor authentication enabled")
                  EXCEPT !.uid = pending[w].current_user.id,
                         !.req = <<pending[w].code>>]
    /\ pending' = [pending EXCEPT ![w] = NoBody]
    /\ UNCHANGED <<now, refresh_tokens, access_tokens, files, disk, next_user_id,
                   next_file_id, logged_out, requests, outbox, sessions>>

(***************************************************************************)
(* api/v1/users.py                                                         *)
(***************************************************************************)
\* GET /users/me
get_current_user_profile(cred) ==
    LET auth == get_current_user(cred) IN
    IF ~auth.ok
    THEN Reject([AuthFailure("me", auth) EXCEPT !.req = <<cred>>])
    ELSE Reject([Response("me", 200, "") EXCEPT
                   !.uid = auth.user.id, !.req = <<cred>>])

\* POST /users/me/change-password
change_password(cred, current_password, new_password, new_password_confirm) ==
    LET auth == get_current_user(cred) IN
    IF ~auth.ok
    THEN Reject(AuthFailure("change_password", auth))
    ELSE IF Len(new_password) < 8 \/ Len(new_password_confirm) < 8
    THEN Reject(Response("change_password", 422, "Validation error"))
    ELSE IF new_password # new_password_confirm
    THEN Reject(Response("change_password", 500, "New passwords do not match"))
    ELSE IF ~verify_password(current_password, auth.user.hashed_password)
    THEN Reject([Response("change_password", 400, "Current password is incorrect")
                  EXCEPT !.uid = auth.user.id])
    ELSE IF ~validate_password(new_password)[1]
    THEN Reject([Response("change_password", 400, validate_password(new_password)[2])
                  EXCEPT !.uid = auth.user.id])
    ELSE /\ users' = UpdateUser(auth.user,
                        [auth.user EXCEPT !.hashed_password =
                                              get_password_hash(new_password)])
         /\ resp' = [Response("change_password", 200, "Password changed successfully")
                       EXCEPT !.uid = auth.user.id]
         /\ UNCHANGED <<now, refresh_tokens, access_tokens, files, disk,
                        next_user_id, next_file_id, logged_out, requests, outbox, pending, sessions>>

\* rows that reference a user through a NOT NULL foreign key
\* (RefreshToken.user_id, FileRecord.user_id)
Dependents(user) ==
    {rt \in refresh_tokens : rt.user_id = user.id}
    \cup {f \in files : f.user_id = user.id}

\* DELETE /users/me: db.delete(current_user); db.commit().  The relationships
\* declare no delete cascade, so the flush first sets the user_id of every row
\* that references the user to NULL; the column is NOT NULL, the flush fails
\* with an IntegrityError and nothing is deleted.  Only a user no row
\* references is deleted.
delete_current_user(cred) ==
    LET auth == get_current_user(cred) IN
    IF ~auth.ok
    THEN Reject(AuthFailure("delete_me", auth))
    ELSE IF Dependents(auth.user) # {}
    THEN Reject([Response("delete_me", 500, "Internal Server Error")
                  EXCEPT !.uid = auth.user.id])
    ELSE /\ users' = users \ {auth.user}
         /\ resp' = [Response("delete_me", 200, "User account deleted successfully")
                       EXCEPT !.uid = auth.user.id]
         /\ UNCHANGED <<now, refresh_tokens, access_tokens, files, disk,
                        next_user_id, next_file_id, logged_out, requests, outbox, pending, sessions>>

\* GET /users/ (admin only)
get_all_users(cred) ==
    LET auth == get_current_admin_user(cred) IN
    IF ~auth.ok
    THEN Reject(AuthFailure("list_users", auth))
    ELSE Reject([Response("list_users", 200, "") EXCEPT !.uid = auth.user.id])

\* GET /users/{user_id} (admin only)
get_user_by_id(cred, user_id) ==
    LET auth == get_current_admin_user(cred) IN
    IF ~auth.ok
    THEN Reject(AuthFailure("get_user", auth))
    ELSE IF UserById(user_id).id = 0
    THEN Reject([Response("get_user", 404, "User not found")
                  EXCEPT !.uid = auth.user.id])
    ELSE Reject([Response("get_user", 200, "")
                  EXCEPT !.uid = auth.user.id, !.target = user_id])

\* PATCH /users/{user_id}/activate and /deactivate (admin only): is_active := flag
SetActive(op, cred, user_id, flag) ==
    LET auth == get_current_admin_user(cred)
        user == UserById(user_id)
    IN
    IF ~auth.ok
    THEN Reject(AuthFailure(op, auth))
    ELSE IF user.id = 0
    THEN Reject([Response(op, 404, "User not found") EXCEPT !.uid = auth.user.id])
    ELSE /\ users' = UpdateUser(user, [user EXCEPT !.is_active = flag])
         /\ resp' = [Response(op, 200, "") EXCEPT
                       !.uid = auth.user.id, !.target = user_id]
         /\ UNCHANGED <<now, refresh_tokens, access_tokens, files, disk,
                        next_user_id, next_file_id, logged_out, requests, outbox, pending, sessions>>

activate_user(cred, user_id) == SetActive("activate", cred, user_id, TRUE)
deactivate_user(cred, user_id) == SetActive("deactivate", cred, user_id, FALSE)


(***************************************************************************)
(* api/v1/files.py                                                         *)
(***************************************************************************)
\* settings.ALLOWED_EXTENSIONS
AllowedExtensions == {".gltf", ".glb", ".babylon", ".obj", ".stl", ".fbx", ".dae"}
FileVisibility == {"private", "public", "shared"}

\* absent (None) request fields and columns
NoName == <<"", "">>
NoVisibility == "none"
NoDescription == "none"
NoTags == <<"none">>
NoShare == "none"

\* the suffix compared as it is written
AsWritten(suffix) == suffix

\* a file name is its stem and its suffix; str.lower() on the suffixes used
Lower(suffix) ==
    CASE suffix = ".GLB" -> ".glb"
      [] suffix = ".Gltf" -> ".gltf"
      [] suffix = ".EXE" -> ".exe"
      [] OTHER -> suffix
\* Path(file.filename).suffix.lower()
FileExt(filename) == Lower(filename[2])

\* str.strip() on the tag pieces used
Strip(piece) ==
    CASE piece = " draft" -> "draft"
      [] piece = "cad " -> "cad"
      [] OTHER -> piece
\* [tag.strip() for tag in tags.split(',')]; tags is given as its comma-separated pieces
ParseTags(tags) ==
    IF tags = NoTags \/ tags = <<>> THEN <<>>
    ELSE [i \in 1..Len(tags) |-> Strip(tags[i])]

\* FileVisibility(visibility), falling back to private on ValueError or None
ParseVisibility(visibility) ==
    IF visibility \in FileVisibility THEN visibility ELSE "private"

\* db.get(FileRecord, file_id)
FileById(file_id) ==
    IF \E f \in files : f.id = file_id
    THEN CHOOSE f \in files : f.id = file_id
    ELSE [id |-> 0]

\* FileRecord.is_public
is_public(file_record) == file_record.visibility = "public"

\* a share link that still counts at the instant it expires
is_shared_until_expiry(file_record) ==
    IF file_record.visibility # "shared" THEN FALSE
    ELSE IF file_record.share_expires_at = NoTime THEN TRUE
    ELSE file_record.share_expires_at >= now

\* FileRecord.is_shared
is_shared(file_record) ==
    IF file_record.visibility # "shared" THEN FALSE
    ELSE IF file_record.share_expires_at = NoTime THEN TRUE
    ELSE file_record.share_expires_at > now

\* the quota test of upload_file raises InsufficientStorageException
QuotaCheckRaises(current_user, file_size) ==
    current_user.storage_used + file_size > current_user.storage_quota

\* "except Exception as e: ... pass" around the quota test: the handler
\* catches what the test raises, InsufficientStorageException included
QuotaExceptionCaught(current_user, file_size) == TRUE

\* the views and downloads served so far, over the files still stored
RECURSIVE SumCounts(_)
SumCounts(file_records) ==
    IF file_records = {} THEN 0
    ELSE LET f == CHOOSE f \in file_records : TRUE
         IN f.view_count + f.download_count + SumCounts(file_records \ {f})
Served == SumCounts(files)

\* storage_used overwritten with the size of the upload
StorageSetToUpload(current_user, file_size) == file_size

\* current_user.storage_used += file_size
StorageAfterUpload(current_user, file_size) ==
    current_user.storage_used + file_size

\* an error of Path.unlink() that reaches the client
UnlinkErrorRaised == FALSE

\* "try: Path(file_record.path).unlink() except: pass": the bare except
\* swallows every error of the removal
UnlinkErrorSwallowed == TRUE

\* a deletion that leaves storage_used as it was
StorageKeptByDelete(current_user, file_record) == current_user.storage_used

\* current_user.storage_used -= file_record.size
StorageAfterDelete(current_user, file_record) ==
    current_user.storage_used - file_record.size

\* FileRecord.increment_view_count
increment_view_count(file_record) == [file_record EXCEPT !.view_count = @ + 1]

\* a download counted as a view as well
increment_both_counts(file_record) ==
    [file_record EXCEPT !.download_count = @ + 1, !.view_count = @ + 1]

\* FileRecord.increment_download_count
increment_download_count(file_record) ==
    [file_record EXCEPT !.download_count = @ + 1]

\* ownership extended to every public file
IsOwnerOrPublic(file_record, current_user) ==
    file_record.user_id = current_user.id \/ file_record.visibility = "public"

\* the owner test of update_file, delete_file and share_file
IsOwner(file_record, current_user) == file_record.user_id = current_user.id

\* the view test with shared files let through as well
MayViewOrShared(file_record, current_user) ==
    \/ file_record.user_id = current_user.id
    \/ file_record.visibility \in {"public", "shared"}

\* the permission test of get_file and download_file
MayView(file_record, current_user) ==
    file_record.user_id = current_user.id \/ is_public(file_record)

\* the row u of a table tbl replaced by v
Replace(tbl, u, v) == (tbl \ {u}) \cup {v}

\* POST /files/upload
upload_file(cred, filename, file_size, visibility, description, tags) ==
    LET auth == get_current_user(cred)
        current_user == auth.user
        file_ext == FileExt(filename)
        file_path == <<current_user.id, next_file_id>>
    IN
    IF ~auth.ok
    THEN Reject(AuthFailure("upload", auth))
    ELSE IF file_ext \notin AllowedExtensions
    THEN Reject([Response("upload", 400, "Invalid file type")
                  EXCEPT !.uid = current_user.id, !.req = <<filename, file_size>>])
    ELSE IF file_size > MaxUploadSize
    THEN Reject([Response("upload", 400, "File size exceeds maximum allowed size")
                  EXCEPT !.uid = current_user.id, !.req = <<filename, file_size>>])
    ELSE IF QuotaCheckRaises(current_user, file_size)
            /\ ~QuotaExceptionCaught(current_user, file_size)
    THEN Reject([Response("upload", 403, "Insufficient storage")
                  EXCEPT !.uid = current_user.id, !.req = <<filename, file_size>>])
    ELSE /\ next_file_id <= MaxFiles
         /\ disk' = disk \cup {file_path}
         /\ files' = files \cup
                {[id |-> next_file_id,
                  name |-> filename,
                  extension |-> file_ext,
                  size |-> file_size,
                  status |-> "pending",
                  visibility |-> ParseVisibility(visibility),
                  share_token |-> NoShare,
                  share_expires_at |-> NoTime,
                  description |-> description,
                  tags |-> ParseTags(tags),
                  user_id |-> current_user.id,
                  path |-> file_path,
                  download_count |-> 0,
                  view_count |-> 0,
                  created_at |-> now]}
         /\ users' = UpdateUser(current_user,
                        [current_user EXCEPT
                           !.storage_used = StorageAfterUpload(current_user, file_size)])
         /\ next_file_id' = next_file_id + 1
         /\ resp' = [Response("upload", 200, "File uploaded successfully")
                       EXCEPT !.uid = current_user.id, !.fid = next_file_id,
                              !.req = <<filename, file_size>>]
         /\ UNCHANGED <<now, refresh_tokens, access_tokens, next_user_id,
                        logged_out, requests, outbox, pending, sessions>>

\* GET /files/{file_id}
get_file(cred, file_id) ==
    LET auth == get_current_user(cred)
        file_record == FileById(file_id)
    IN
    IF ~auth.ok
    THEN Reject(AuthFailure("get_file", auth))
    ELSE IF file_record.id = 0
    THEN Reject([Response("get_file", 404, "File not found")
                  EXCEPT !.uid = auth.user.id, !.target = file_id])
    ELSE IF ~MayView(file_record, auth.user)
    THEN Reject([Response("get_file", 403, "You don't have permission to view this file")
                  EXCEPT !.uid = auth.user.id, !.target = file_id])
    ELSE /\ Served < MaxCount
         /\ files' = Replace(files, file_record, increment_view_count(file_record))
         /\ resp' = [Response("get_file", 200, "") EXCEPT
                       !.uid = auth.user.id, !.target = file_id, !.fid = file_id]
         /\ UNCHANGED <<now, users, refresh_tokens, access_tokens, disk,
                        next_user_id, next_file_id, logged_out, requests, outbox, pending, sessions>>

\* PATCH /files/{file_id}
update_file(cred, file_id, name, description, visibility, tags) ==
    LET auth == get_current_user(cred)
        file_record == FileById(file_id)
    IN
    IF ~auth.ok
    THEN Reject(AuthFailure("update_file", auth))
    ELSE IF file_record.id = 0
    THEN Reject([Response("update_file", 404, "File not found")
                  EXCEPT !.uid = auth.user.id, !.target = file_id])
    ELSE IF ~IsOwner(file_record, auth.user)
    THEN Reject([Response("update_file", 403,
                          "You don't have permission to update this file")
                  EXCEPT !.uid = auth.user.id, !.target = file_id])
    ELSE /\ files' = Replace(files, file_record,
                        [file_record EXCEPT
                           !.name = IF name # NoName THEN name ELSE @,
                           !.description =
                               IF description # NoDescription THEN description ELSE @,
                           !.visibility =
                               IF visibility # NoVisibility THEN visibility ELSE @,
                           !.tags = IF tags # NoTags THEN tags ELSE @])
         /\ resp' = [Response("update_file", 200, "") EXCEPT
                       !.uid = auth.user.id, !.target = file_id, !.fid = file_id]
         /\ UNCHANGED <<now, users, refresh_tokens, access_tokens, disk,
                        next_user_id, next_file_id, logged_out, requests, outbox, pending, sessions>>

\* DELETE /files/{file_id}; unlink_fails: Path.unlink() raises on a file that
\* is there (a missing file always raises), which "except: pass" swallows
delete_file(cred, file_id, unlink_fails) ==
    LET auth == get_current_user(cred)
        current_user == auth.user
        file_record == FileById(file_id)
    IN
    IF ~auth.ok
    THEN Reject(AuthFailure("delete_file", auth))
    ELSE IF file_record.id = 0
    THEN Reject([Response("delete_file", 404, "File not found")
                  EXCEPT !.uid = current_user.id, !.target = file_id])
    ELSE IF ~IsOwner(file_record, current_user)
    THEN Reject([Response("delete_file", 403,
                          "You don't have permission to delete this file")
                  EXCEPT !.uid = current_user.id, !.target = file_id])
    ELSE IF unlink_fails /\ ~UnlinkErrorSwallowed
    THEN Reject([Response("delete_file", 500, "Internal Server Error")
                  EXCEPT !.uid = current_user.id, !.target = file_id,
                         !.req = <<unlink_fails>>])
    ELSE /\ disk' = IF unlink_fails THEN disk ELSE disk \ {file_record.path}
         /\ users' = UpdateUser(current_user,
                        [current_user EXCEPT
                           !.storage_used = StorageAfterDelete(current_user, file_record)])
         /\ files' = files \ {file_record}
         /\ resp' = [Response("delete_file", 200, "File deleted successfully")
                       EXCEPT !.uid = current_user.id, !.target = file_id,
                              !.req = <<unlink_fails>>]
         /\ UNCHANGED <<now, refresh_tokens, access_tokens, next_user_id,
                        next_file_id, logged_out, requests, outbox, pending, sessions>>

\* the UPDATE a commit flushes for the User object a session loaded and whose
\* storage_used the handler assigned: the column is set to the value computed
\* from the object as it was loaded (expire_on_commit=False, no locking, no
\* version column), whatever the row holds by then
FlushStorageUsed(current_user, storage_used) ==
    {IF u.id = current_user.id THEN [u EXCEPT !.storage_used = storage_used] ELSE u :
        u \in users}

\* POST /files/upload on worker w, from get_current_user to the quota check:
\* the session of the request holds the User as loaded
upload_checked(w, cred, filename, file_size, visibility, description, tags) ==
    LET auth == get_current_user(cred)
        current_user == auth.user
        file_ext == FileExt(filename)
    IN
    /\ pending[w] = NoBody
    /\ IF ~auth.ok
       THEN Reject(AuthFailure("upload", auth))
       ELSE IF file_ext \notin AllowedExtensions
       THEN Reject([Response("upload", 400, "Invalid file type")
                     EXCEPT !.uid = current_user.id, !.req = <<filename, file_size>>])
       ELSE IF file_size > MaxUploadSize
       THEN Reject([Response("upload", 400, "File size exceeds maximum allowed size")
                     EXCEPT !.uid = current_user.id, !.req = <<filename, file_size>>])
       ELSE IF QuotaCheckRaises(current_user, file_size)
               /\ ~QuotaExceptionCaught(current_user, file_size)
       THEN Reject([Response("upload", 403, "Insufficient storage")
                     EXCEPT !.uid = current_user.id, !.req = <<filename, file_size>>])
       ELSE /\ pending' = [pending EXCEPT ![w] =
                             [op |-> "upload", current_user |-> current_user,
                              filename |-> filename, file_size |-> file_size,
                              visibility |-> visibility,
                              description |-> description, tags |-> tags]]
            /\ resp' = Idle
            /\ UNCHANGED <<now, dbvars, access_tokens, logged_out, requests,
                           outbox, sessions>>

\* POST /files/upload on worker w, from the write of the file to the commit
upload_commit(w) ==
    /\ pending[w] # NoBody
    /\ pending[w].op = "upload"
    /\ next_file_id <= MaxFiles
    /\ LET current_user == pending[w].current_user
           file_size == pending[w].file_size
           file_path == <<current_user.id, next_file_id>>
       IN
       /\ disk' = disk \cup {file_path}
       /\ files' = files \cup
              {[id |-> next_file_id,
                name |-> pending[w].filename,
                extension |-> FileExt(pending[w].filename),
                size |-> file_size,
                status |-> "pending",
                visibility |-> ParseVisibility(pending[w].visibility),
                share_token |-> NoShare,
                share_expires_at |-> NoTime,
                description |-> pending[w].description,
                tags |-> ParseTags(pending[w].tags),
                user_id |-> current_user.id,
                path |-> file_path,
                download_count |-> 0,
                view_count |-> 0,
                created_at |-> now]}
       /\ users' = FlushStorageUsed(current_user,
                                    StorageAfterUpload(current_user, file_size))
       /\ next_file_id' = next_file_id + 1
       /\ resp' = [Response("upload", 200, "File uploaded successfully")
                     EXCEPT !.uid = current_user.id, !.fid = next_file_id,
                            !.req = <<pending[w].filename, file_size>>]
    /\ pending' = [pending EXCEPT ![w] = NoBody]
    /\ UNCHANGED <<now, refresh_tokens, access_tokens, next_user_id,
                   logged_out, requests, outbox, sessions>>

\* DELETE /files/{file_id} on worker w, from get_current_user to the owner
\* test: the session holds the User and the FileRecord as loaded
delete_checked(w, cred, file_id) ==
    LET auth == get_current_user(cred)
        current_user == auth.user
        file_record == FileById(file_id)
    IN
    /\ pending[w] = NoBody
    /\ IF ~auth.ok
       THEN Reject(AuthFailure("delete_file", auth))
       ELSE IF file_record.id = 0
       THEN Reject([Response("delete_file", 404, "File not found")
                     EXCEPT !.uid = current_user.id, !.target = file_id])
       ELSE IF ~IsOwner(file_record, current_user)
       THEN Reject([Response("delete_file", 403,
                             "You don't have permission to delete this file")
                     EXCEPT !.uid = current_user.id, !.target = file_id])
       ELSE /\ pending' = [pending EXCEPT ![w] =
                             [op |-> "delete_file", current_user |-> current_user,
                              file_record |-> file_record]]
            /\ resp' = Idle
            /\ UNCHANGED <<now, dbvars, access_tokens, logged_out, requests,
                           outbox, sessions>>

\* DELETE /files/{file_id} on worker w, from the unlink to the commit; the
\* DELETE of a row that is gone by then fails the flush (StaleDataError) and
\* the transaction is rolled back
delete_commit(w) ==
    /\ pending[w] # NoBody
    /\ pending[w].op = "delete_file"
    /\ LET current_user == pending[w].current_user
           file_record == pending[w].file_record
       IN
       /\ disk' = disk \ {file_record.path}
       /\ IF FileById(file_record.id).id = 0
          THEN /\ resp' = [Response("delete_file", 500, "Internal Server Error")
                             EXCEPT !.uid = current_user.id,
                                    !.target = file_record.id]
               /\ UNCHANGED <<users, files>>
          ELSE /\ users' = FlushStorageUsed(current_user,
                              StorageAfterDelete(current_user, file_record))
               /\ files' = files \ {FileById(file_record.id)}
               /\ resp' = [Response("delete_file", 200, "File deleted successfully")
                             EXCEPT !.uid = current_user.id,
                                    !.target = file_record.id]
    /\ pending' = [pending EXCEPT ![w] = NoBody]
    /\ UNCHANGED <<now, refresh_tokens, access_tokens, next_user_id,
                   next_file_id, logged_out, requests, outbox, sessions>>

\* GET /files/{file_id}/download
download_file(cred, file_id) ==
    LET auth == get_current_user(cred)
        file_record == FileById(file_id)
    IN
    IF ~auth.ok
    THEN Reject(AuthFailure("download", auth))
    ELSE IF file_record.id = 0
    THEN Reject([Response("download", 404, "File not found")
                  EXCEPT !.uid = auth.user.id, !.target = file_id])
    ELSE IF ~MayView(file_record, auth.user)
    THEN Reject([Response("download", 403,
                          "You don't have permission to download this file")
                  EXCEPT !.uid = auth.user.id, !.target = file_id])
    ELSE IF file_record.path \notin disk
    THEN Reject([Response("download", 404, "File not found")
                  EXCEPT !.uid = auth.user.id, !.target = file_id])
    ELSE /\ Served < MaxCount
         /\ files' = Replace(files, file_record,
                        increment_download_count(file_record))
         /\ resp' = [Response("download", 200, "") EXCEPT
                       !.uid = auth.user.id, !.target = file_id, !.fid = file_id]
         /\ UNCHANGED <<now, users, refresh_tokens, access_tokens, disk,
                        next_user_id, next_file_id, logged_out, requests, outbox, pending, sessions>>

\* POST /files/{file_id}/share; share_token is secrets.token_urlsafe(32),
\* expires_in_hours is 0 when absent
share_file(cred, file_id, expires_in_hours, share_token) ==
    LET auth == get_current_user(cred)
        file_record == FileById(file_id)
        expires_at == IF expires_in_hours # 0 THEN now + expires_in_hours ELSE NoTime
    IN
    IF ~auth.ok
    THEN Reject(AuthFailure("share_file", auth))
    ELSE IF file_record.id = 0
    THEN Reject([Response("share_file", 404, "File not found")
                  EXCEPT !.uid = auth.user.id, !.target = file_id])
    ELSE IF ~IsOwner(file_record, auth.user)
    THEN Reject([Response("share_file", 403,
                          "You don't have permission to share this file")
                  EXCEPT !.uid = auth.user.id, !.target = file_id])
    ELSE /\ files' = Replace(files, file_record,
                        [file_record EXCEPT
                           !.visibility = "shared",
                           !.share_token = share_token,
                           !.share_expires_at = expires_at])
         /\ resp' = [Response("share_file", 200, share_token) EXCEPT
                       !.uid = auth.user.id, !.target = file_id, !.fid = file_id]
         /\ UNCHANGED <<now, users, refresh_tokens, access_tokens, disk,
                        next_user_id, next_file_id, logged_out, requests, outbox, pending, sessions>>

\* api/deps.py: PaginationParams.__init__
PaginationParams(page, per_page, max_per_page) ==
    LET page1 == IF page < 1 THEN 1 ELSE page
        per_page1 == IF per_page < 1 THEN DefaultPerPage ELSE per_page
        per_page2 == IF per_page1 > max_per_page THEN max_per_page ELSE per_page1
    IN [page |-> page1, per_page |-> per_page2,
        offset |-> (page1 - 1) * per_page2, limit |-> per_page2]

\* an optional request field (<<>> or <<value>>) that Python's "if field:"
\* takes as given: not None, and not the empty value of its type (0, "", [])
Truthy(field, empty) == field # <<>> /\ field[1] # empty

\* FileRecord.name.contains(text) on the names and search texts used
NameContains(name, text) ==
    CASE name = <<"model", ".GLB">> -> text \in {"mod", "model", ".GLB"}
      [] name = <<"tool", ".Gltf">> -> text \in {"tool", ".Gltf"}
      [] OTHER -> FALSE

\* FileRecord.tags.contains([tag]) on the JSON column, as the database
\* evaluates it: "element" where it tests membership in the stored list,
\* "text" where it compares the serialized texts (LIKE '%["tag"]%')
TagsContain(file_tags, tag, json_contains) ==
    IF json_contains = "element"
    THEN \E i \in 1..Len(file_tags) : file_tags[i] = tag
    ELSE file_tags = <<tag>>

\* a tags filter that keeps a file having any one of the tags
TagsFilterAnyOf(file_tags, tags, json_contains) ==
    \E i \in 1..Len(tags) : TagsContain(file_tags, tags[i], json_contains)

\* "for tag in search_request.tags: query = query.where(...)": every pass of
\* the loop adds one more condition to the query
TagsFilter(file_tags, tags, json_contains) ==
    \A i \in 1..Len(tags) : TagsContain(file_tags, tags[i], json_contains)

\* the value a row is ordered by
SortKey(file_record, sort_by) ==
    CASE sort_by = "created_at" -> file_record.created_at
      [] sort_by = "size" -> file_record.size
      [] sort_by = "download_count" -> file_record.download_count
      [] sort_by = "view_count" -> file_record.view_count
      [] OTHER -> file_record.id

\* the orders in which the database may return rows for ORDER BY sort_by:
\* rows with equal keys come in any order
Ordered(rows, sort_by, sort_order) ==
    {items \in [1..Cardinality(rows) -> rows] :
        /\ \A i, j \in DOMAIN items : i # j => items[i] # items[j]
        /\ \A i, j \in DOMAIN items :
              i < j => IF sort_order = "desc"
                       THEN SortKey(items[i], sort_by) >= SortKey(items[j], sort_by)
                       ELSE SortKey(items[i], sort_by) <= SortKey(items[j], sort_by)}

\* query.offset(offset).limit(limit) on the ordered rows
Page(items, offset, limit) ==
    SubSeq(items, offset + 1,
           IF offset + limit < Len(items) THEN offset + limit ELSE Len(items))

\* FileListResponse
FileListResponse(op, current_user, req, items, total, page, per_page) ==
    [Response(op, 200, "") EXCEPT !.uid = current_user.id, !.req = req]
    @@ [items |-> items, total |-> total, page |-> page, per_page |-> per_page,
        pages |-> (total + per_page - 1) \div per_page]

\* every row of files
AnyOwnerRows(current_user) == files

\* select(FileRecord).where(FileRecord.user_id == current_user.id)
OwnRows(current_user) == {f \in files : f.user_id = current_user.id}

\* GET /files/; search is <<>> or <<text>>
get_user_files(cred, page, per_page, max_per_page, sort_by, sort_order, search) ==
    LET auth == get_current_user(cred)
        current_user == auth.user
        pagination == PaginationParams(page, per_page, max_per_page)
        rows == {f \in OwnRows(current_user) :
                    Truthy(search, "") => NameContains(f.name, search[1])}
        req == <<search, sort_by, sort_order, page, per_page, max_per_page>>
    IN
    IF ~auth.ok
    THEN Reject(AuthFailure("list_files", auth))
    ELSE IF pagination.per_page = 0
    THEN Reject([Response("list_files", 500, "Internal Server Error")
                  EXCEPT !.uid = current_user.id, !.req = req])
    ELSE \E items \in Ordered(rows, sort_by, sort_order) :
            Reject(FileListResponse("list_files", current_user, req,
                       Page(items, pagination.offset, pagination.limit),
                       Cardinality(rows), pagination.page, pagination.per_page))

\* POST /files/search; search_request is a FileSearchRequest the schema has
\* accepted, its optional fields <<>> or <<value>>
search_files(cred, search_request, json_contains) ==
    LET auth == get_current_user(cred)
        current_user == auth.user
        rows == {f \in OwnRows(current_user) :
                    /\ Truthy(search_request.query, "")
                          => NameContains(f.name, search_request.query[1])
                    /\ Truthy(search_request.tags, <<>>)
                          => TagsFilter(f.tags, search_request.tags[1], json_contains)
                    /\ Truthy(search_request.extensions, <<>>)
                          => \E i \in DOMAIN search_request.extensions[1] :
                                f.extension = search_request.extensions[1][i]
                    /\ Truthy(search_request.min_size, 0)
                          => f.size >= search_request.min_size[1]
                    /\ Truthy(search_request.max_size, 0)
                          => f.size <= search_request.max_size[1]
                    /\ Truthy(search_request.status, "")
                          => f.status = search_request.status[1]
                    /\ Truthy(search_request.visibility, "")
                          => f.visibility = search_request.visibility[1]
                    /\ search_request.created_after # <<>>
                          => f.created_at >= search_request.created_after[1]
                    /\ search_request.created_before # <<>>
                          => f.created_at <= search_request.created_before[1]}
        offset == (search_request.page - 1) * search_request.per_page
    IN
    IF ~auth.ok
    THEN Reject(AuthFailure("search_files", auth))
    ELSE \E items \in Ordered(rows, search_request.sort_by, search_request.sort_order) :
            Reject(FileListResponse("search_files", current_user,
                       <<search_request, json_contains>>,
                       Page(items, offset, search_request.per_page),
                       Cardinality(rows), search_request.page,
                       search_request.per_page))

\* the upload directory loses a file outside the service
disk_file_lost(file_path) ==
    /\ file_path \in disk
    /\ disk' = disk \ {file_path}
    /\ resp' = Idle
    /\ UNCHANGED <<now, users, refresh_tokens, access_tokens, files,
                   next_user_id, next_file_id, logged_out, requests, outbox, pending, sessions>>

(***************************************************************************)
(* core/security.py: RateLimiter                                           *)
(***************************************************************************)
\* the timestamps kept when the one at the cutoff still counts
RecentOrAtCutoff(times, cutoff) == SelectSeq(times, LAMBDA req_time : req_time >= cutoff)

\* [req_time for req_time in self.requests[key] if req_time > cutoff]
Recent(times, cutoff) == SelectSeq(times, LAMBDA req_time : req_time > cutoff)

\* RateLimiter.is_allowed; the value returned is the last element of resp.req
is_allowed(key, max_requests, window_seconds) ==
    LET cutoff == now - window_seconds
        kept == Recent(requests[key], cutoff)
    IN
    /\ IF Len(kept) >= max_requests
       THEN /\ requests' = [requests EXCEPT ![key] = kept]
            /\ resp' = [Response("is_allowed", 0, "") EXCEPT
                          !.req = <<key, max_requests, window_seconds, FALSE>>]
       ELSE /\ requests' = [requests EXCEPT ![key] = Append(kept, now)]
            /\ resp' = [Response("is_allowed", 0, "") EXCEPT
                          !.req = <<key, max_requests, window_seconds, TRUE>>]
    /\ UNCHANGED <<now, dbvars, access_tokens, logged_out, outbox, pending, sessions>>

(***************************************************************************)
(* Specifications.  Each one runs a part of the service from a database    *)
(* that earlier registrations have filled: NewUser is the row register     *)
(* commits.                                                                *)
(***************************************************************************)
Passwords == {StrongPw, OtherPw}
UserIds == 1..(MaxUsers + 1)

Registered(registered_users) ==
    /\ now = 0
    /\ users = registered_users
    /\ refresh_tokens = {}
    /\ access_tokens = {}
    /\ files = {}
    /\ disk = {}
    /\ next_user_id = Cardinality(registered_users) + 1
    /\ next_file_id = 1
    /\ logged_out = {}
    /\ requests = NoRequests
    /\ outbox = {}
    /\ pending = NoPending
    /\ sessions = NoSessions
    /\ resp = Idle

(***************************************************************************)
(* Token lifecycle: login, refresh, logout, the passage of time, and the   *)
(* operations that remove or disable the token's user.                     *)
(***************************************************************************)
Ann == NewUser(1, "ann@cad.io", StrongPw, "admin", TRUE)
Bob == NewUser(2, "bob@cad.io", StrongPw, "user", TRUE)

InitTokens == Registered({Ann, Bob})

NextTokens ==
    \/ Tick
    \/ \E email \in Emails : login(email, StrongPw, NoCode)
    \/ \E token \in TokenInputs : refresh_token(token)
    \/ \E token \in TokenInputs \cup {NoToken} : logout(token)
    \/ \E cred \in BearerCredentials : delete_current_user(cred)
    \/ \E cred \in BearerCredentials, user_id \in ExistingIds :
            activate_user(cred, user_id)
    \/ \E cred \in BearerCredentials, user_id \in ExistingIds :
            deactivate_user(cred, user_id)

SpecTokens == InitTokens /\ [][NextTokens]_vars

(***************************************************************************)
(* File management: both users have registered and logged in at time 0.    *)
(***************************************************************************)
LoggedIn(user) == [user EXCEPT !.last_login = 0]
LoginRow(id, user) ==
    [id |-> id,
     token |-> Jwt("refresh", user.email, RefreshTokenExpire, id),
     user_id |-> user.id,
     expires_at |-> RefreshTokenExpire,
     revoked |-> FALSE]

InitFiles ==
    /\ now = 0
    /\ users = {LoggedIn(Ann), LoggedIn(Bob)}
    /\ refresh_tokens = {LoginRow(1, Ann), LoginRow(2, Bob)}
    /\ access_tokens = {Jwt("access", Ann.email, AccessTokenExpire, 0),
                        Jwt("access", Bob.email, AccessTokenExpire, 0)}
    /\ files = {}
    /\ disk = {}
    /\ next_user_id = 3
    /\ next_file_id = 1
    /\ logged_out = {}
    /\ requests = NoRequests
    /\ outbox = {}
    /\ pending = NoPending
    /\ sessions = NoSessions
    /\ resp = [Response("login", 200, "") EXCEPT
                 !.req = <<Bob.email, StrongPw, NoCode>>,
                 !.uid = Bob.id,
                 !.access = Jwt("access", Bob.email, AccessTokenExpire, 0),
                 !.refresh = Jwt("refresh", Bob.email, RefreshTokenExpire, 2)]

Filenames == {<<"model", ".GLB">>, <<"tool", ".exe">>}
Sizes == 1..(MaxUploadSize + 1)
FileIds == 1..(MaxFiles + 1)
HeldFileIds == 1..(MaxHeldFiles + 1)
ShareTokens == {"T1"}
RequestCredentials == BearerCredentials \cup {[token |-> NoToken, api_key |-> NoKey]}

(***************************************************************************)
(* Storage accounting: uploads of every size and deletions.                *)
(***************************************************************************)
NextUpload ==
    \/ \E cred \in RequestCredentials, filename \in Filenames, file_size \in Sizes :
            upload_file(cred, filename, file_size, "private", NoDescription, NoTags)
    \/ \E cred \in RequestCredentials, file_id \in FileIds, unlink_fails \in BOOLEAN :
            delete_file(cred, file_id, unlink_fails)

SpecUpload == InitFiles /\ [][NextUpload]_vars

(***************************************************************************)
(* Access control: files of one size, every operation on a single file.    *)
(***************************************************************************)
NextFiles ==
    \/ \E cred \in RequestCredentials :
            /\ next_file_id <= MaxHeldFiles
            /\ upload_file(cred, <<"model", ".GLB">>, 1, "private",
                           NoDescription, NoTags)
    \/ \E cred \in RequestCredentials, file_id \in HeldFileIds : get_file(cred, file_id)
    \/ \E cred \in RequestCredentials, file_id \in HeldFileIds,
          visibility \in {"private", "public"} :
            update_file(cred, file_id, NoName, NoDescription, visibility, NoTags)
    \/ \E cred \in RequestCredentials, file_id \in HeldFileIds :
            delete_file(cred, file_id, FALSE)
    \/ \E cred \in RequestCredentials, file_id \in HeldFileIds :
            download_file(cred, file_id)
    \/ \E cred \in RequestCredentials, file_id \in HeldFileIds,
          share_token \in ShareTokens :
            share_file(cred, file_id, 1, share_token)

SpecFiles == InitFiles /\ [][NextFiles]_vars

(***************************************************************************)
(* Usage counters: one file that its owner makes public or private, that   *)
(* both users view and download, and whose file on disk may disappear.     *)
(***************************************************************************)
NextCounters ==
    \/ \E cred \in RequestCredentials :
            /\ next_file_id <= MaxHeldFiles
            /\ upload_file(cred, <<"model", ".GLB">>, 1, "public",
                           NoDescription, NoTags)
    \/ \E cred \in RequestCredentials, file_id \in HeldFileIds : get_file(cred, file_id)
    \/ \E cred \in RequestCredentials, file_id \in HeldFileIds :
            download_file(cred, file_id)
    \/ \E cred \in RequestCredentials, file_id \in HeldFileIds,
          visibility \in {"private", "public"} :
            update_file(cred, file_id, NoName, NoDescription, visibility, NoTags)
    \/ \E file_path \in disk : disk_file_lost(file_path)

SpecCounters == InitFiles /\ [][NextCounters]_vars

(***************************************************************************)
(* Share links: one file, shared with and without an expiry, made private  *)
(* or shared again by an update, as time passes.                           *)
(***************************************************************************)
ExpiresInHours == {0, 1}

NextShare ==
    \/ Tick
    \/ \E cred \in BearerCredentials, visibility \in {"private", "shared"} :
            /\ next_file_id <= MaxHeldFiles
            /\ upload_file(cred, <<"model", ".GLB">>, 1, visibility,
                           NoDescription, NoTags)
    \/ \E cred \in BearerCredentials, file_id \in 1..MaxHeldFiles,
          expires_in_hours \in ExpiresInHours, share_token \in ShareTokens :
            share_file(cred, file_id, expires_in_hours, share_token)
    \/ \E cred \in BearerCredentials, file_id \in 1..MaxHeldFiles,
          visibility \in {"private", "shared"} :
            update_file(cred, file_id, NoName, NoDescription, visibility, NoTags)

SpecShare == InitFiles /\ [][NextShare]_vars

(***************************************************************************)
(* Listing and search: both users upload public and shared files with      *)
(* tags, list their files and search them by text, tags and visibility.    *)
(***************************************************************************)
SearchNames == {<<"model", ".GLB">>, <<"tool", ".Gltf">>}
UploadTags == {<<"cad">>, <<"cad ", " draft">>}

\* FileSearchRequest with its defaults
FileSearchRequest(query, tags, visibility) ==
    [query |-> query, tags |-> tags, extensions |-> <<>>, min_size |-> <<>>,
     max_size |-> <<>>, status |-> <<>>, visibility |-> visibility,
     created_after |-> <<>>, created_before |-> <<>>,
     sort_by |-> "created_at", sort_order |-> "desc",
     page |-> 1, per_page |-> DefaultPerPage]

SearchRequests ==
    {FileSearchRequest(query, tags, visibility) :
        query \in {<<>>, <<"mod">>},
        tags \in {<<>>, << <<"draft">> >>, << <<"cad", "draft">> >>},
        visibility \in {<<>>, <<"public">>}}

NextSearch ==
    \/ \E cred \in BearerCredentials, filename \in SearchNames,
          visibility \in {"public", "shared"}, tags \in UploadTags :
            upload_file(cred, filename, 1, visibility, NoDescription, tags)
    \/ \E cred \in RequestCredentials, page \in {1, 2},
          sort_order \in {"asc", "desc"}, search \in {<<>>, <<"mod">>} :
            get_user_files(cred, page, 1, DefaultMaxPerPage, "created_at",
                           sort_order, search)
    \/ \E cred \in RequestCredentials, search_request \in SearchRequests,
          json_contains \in {"element", "text"} :
            search_files(cred, search_request, json_contains)

SpecSearch == InitFiles /\ [][NextSearch]_vars

(***************************************************************************)
(* Overlapping requests: two workers handle uploads and deletions of one   *)
(* user, each request in two steps, so that one request can load the User  *)
(* before another commits.                                                 *)
(***************************************************************************)
BobCredential == [token |-> Jwt("access", Bob.email, AccessTokenExpire, 0),
                  api_key |-> NoKey]
OverlapSizes == 1..MaxUploadSize

NextOverlap ==
    \/ \E w \in Workers, file_size \in OverlapSizes :
            upload_checked(w, BobCredential, <<"model", ".GLB">>, file_size,
                           "private", NoDescription, NoTags)
    \/ \E w \in Workers : upload_commit(w)
    \/ \E w \in Workers, file_id \in FileIds : delete_checked(w, BobCredential, file_id)
    \/ \E w \in Workers : delete_commit(w)

SpecOverlap == InitFiles /\ [][NextOverlap]_vars

(***************************************************************************)
(* Activation: Bob has logged in and the admin has then deactivated him;   *)
(* his tokens and his API key are presented while the admin activates and  *)
(* deactivates him and time passes.                                        *)
(***************************************************************************)
InitDeactivated ==
    /\ now = 0
    /\ users = {LoggedIn(Ann), [LoggedIn(Bob) EXCEPT !.is_active = FALSE]}
    /\ refresh_tokens = {LoginRow(1, Ann), LoginRow(2, Bob)}
    /\ access_tokens = {Jwt("access", Ann.email, AccessTokenExpire, 0),
                        Jwt("access", Bob.email, AccessTokenExpire, 0)}
    /\ files = {}
    /\ disk = {}
    /\ next_user_id = 3
    /\ next_file_id = 1
    /\ logged_out = {}
    /\ requests = NoRequests
    /\ outbox = {}
    /\ pending = NoPending
    /\ sessions = NoSessions
    /\ resp = [Response("deactivate", 200, "") EXCEPT
                 !.uid = Ann.id, !.target = Bob.id]

AnnCredential == [token |-> Jwt("access", Ann.email, AccessTokenExpire, 0),
                  api_key |-> NoKey]
BobKey == [token |-> NoToken, api_key |-> "key1"]

NextActivation ==
    \/ Tick
    \/ api_key_issued(Bob.id, "key1")
    \/ \E cred \in {BobCredential, BobKey} : get_current_user_profile(cred)
    \/ refresh_token(LoginRow(2, Bob).token)
    \/ logout(LoginRow(2, Bob).token)
    \/ activate_user(AnnCredential, Bob.id)
    \/ deactivate_user(AnnCredential, Bob.id)

SpecActivation == InitDeactivated /\ [][NextActivation]_vars

(***************************************************************************)
(* Search by size: files of every size, searched with lower and upper      *)
(* bounds that are absent, zero or positive.                               *)
(***************************************************************************)
SizeBounds == {<<>>} \cup {<<n>> : n \in 0..MaxUploadSize}

SizeSearchRequest(min_size, max_size) ==
    [FileSearchRequest(<<>>, <<>>, <<>>) EXCEPT
        !.min_size = min_size, !.max_size = max_size]

NextSizes ==
    \/ \E file_size \in 0..MaxUploadSize :
            upload_file(BobCredential, <<"model", ".GLB">>, file_size, "private",
                        NoDescription, NoTags)
    \/ \E file_id \in FileIds : delete_file(BobCredential, file_id, FALSE)
    \/ \E min_size \in SizeBounds, max_size \in SizeBounds :
            search_files(BobCredential, SizeSearchRequest(min_size, max_size),
                         "element")

SpecSizes == InitFiles /\ [][NextSizes]_vars

(***************************************************************************)
(* Two-factor requests of one user on two workers: set-up and disabling    *)
(* run whole, verification in two steps, so that a verification can load   *)
(* the User before another request commits.                                *)
(***************************************************************************)
NextTwoFactorWorkers ==
    \/ Tick
    \/ \E secret \in Secrets : setup_two_factor(BobCredential, secret)
    \/ \E w \in Workers, code \in CodeInputs :
            verify_two_factor_checked(w, BobCredential, code)
    \/ \E w \in Workers : verify_two_factor_commit(w)
    \/ disable_two_factor(BobCredential)

SpecTwoFactorWorkers == InitFiles /\ [][NextTwoFactorWorkers]_vars

(***************************************************************************)
(* Accounts: one registered user who may hold an API key, log in, present  *)
(* tokens, ask for the deletion of the account and register again, as time *)
(* passes.                                                                 *)
(***************************************************************************)
NextAccounts ==
    \/ Tick
    \/ login(Ann.email, StrongPw, NoCode)
    \/ \E user_id \in ExistingIds : api_key_issued(user_id, "key1")
    \/ \E cred \in BearerCredentials \cup {[token |-> NoToken, api_key |-> "key1"]} :
            delete_current_user(cred)
    \/ register(Ann.email, StrongPw, StrongPw, <<>>, <<>>)
    \/ \E cred \in BearerCredentials : get_current_user_profile(cred)
    \/ \E token \in TokenInputs : refresh_token(token)

SpecAccounts == Registered({Ann}) /\ [][NextAccounts]_vars

(***************************************************************************)
(* File types: uploads of every size under names whose suffix is allowed   *)
(* or not, in several letter cases, or missing.                            *)
(***************************************************************************)
TypedNames == {<<"model", ".GLB">>, <<"model", ".glb">>, <<"scene", ".Gltf">>,
               <<"tool", ".exe">>, <<"tool", ".EXE">>, <<"readme", "">>}

NextTypes ==
    \/ \E cred \in RequestCredentials, filename \in TypedNames, file_size \in Sizes :
            upload_file(cred, filename, file_size, "private", NoDescription, NoTags)
    \/ \E cred \in RequestCredentials, file_id \in FileIds :
            delete_file(cred, file_id, FALSE)

SpecTypes == InitFiles /\ [][NextTypes]_vars

(***************************************************************************)
(* Administration: two registered users of any roles, and the admin-only   *)
(* operations.                                                             *)
(***************************************************************************)
InitAdmin ==
    \E role_a \in UserRole, role_b \in UserRole :
        Registered({NewUser(1, "ann@cad.io", StrongPw, role_a, TRUE),
                    NewUser(2, "bob@cad.io", StrongPw, role_b, TRUE)})

NextAdmin ==
    \/ \E email \in Emails : login(email, StrongPw, NoCode)
    \/ \E cred \in RequestCredentials : get_all_users(cred)
    \/ \E cred \in RequestCredentials, user_id \in UserIds : get_user_by_id(cred, user_id)
    \/ \E cred \in RequestCredentials, user_id \in UserIds : activate_user(cred, user_id)
    \/ \E cred \in RequestCredentials, user_id \in UserIds : deactivate_user(cred, user_id)

SpecAdmin == InitAdmin /\ [][NextAdmin]_vars

(***************************************************************************)
(* Two-factor authentication: set-up, verification, disabling and login    *)
(* with and without a code, as time passes.                                *)
(***************************************************************************)
InitTwoFactor == Registered({Ann, Bob})

NextTwoFactor ==
    \/ Tick
    \/ \E email \in Emails, password \in Passwords, code \in CodeInputs :
            login(email, password, code)
    \/ \E cred \in RequestCredentials, secret \in Secrets : setup_two_factor(cred, secret)
    \/ \E cred \in RequestCredentials, code \in CodeInputs : verify_two_factor(cred, code)
    \/ \E cred \in RequestCredentials : disable_two_factor(cred)

SpecTwoFactor == InitTwoFactor /\ [][NextTwoFactor]_vars

(***************************************************************************)
(* Rate limiting: calls for two keys with limits up to the configured one, *)
(* as time passes.                                                         *)
(***************************************************************************)
NextRate ==
    \/ Tick
    \/ \E key \in ClientKeys, max_requests \in 1..RateLimitRequests,
          window_seconds \in 1..RateLimitPeriod :
            is_allowed(key, max_requests, window_seconds)

SpecRate == InitTokens /\ [][NextRate]_vars

(***************************************************************************)
(* Credential resolution: requests that carry a bearer token, an API key,  *)
(* both or neither, from two logged-in users who may hold API keys.        *)
(***************************************************************************)
AllCredentials ==
    {[token |-> t, api_key |-> k] :
        t \in TokenInputs \cup {NoToken}, k \in ApiKeys \cup {NoKey}}

NextCredentials ==
    \/ Tick
    \/ \E user_id \in ExistingIds, api_key \in ApiKeys : api_key_issued(user_id, api_key)
    \/ \E cred \in AllCredentials : get_current_user_profile(cred)
    \/ \E cred \in AllCredentials, user_id \in ExistingIds : deactivate_user(cred, user_id)

SpecCredentials == InitFiles /\ [][NextCredentials]_vars

(***************************************************************************)
(* core/exceptions.py and the handler of main.py                           *)
(***************************************************************************)
NoHeaders == {}

\* APIException.__init__
APIException(status_code, detail, headers, error_code) ==
    [status_code |-> status_code, detail |-> detail, headers |-> headers,
     error_code |-> error_code]

BadRequestException(detail, error_code) ==
    APIException(400, detail, NoHeaders, error_code)
UnauthorizedException(detail, error_code) ==
    APIException(401, detail, {<<"WWW-Authenticate", "Bearer">>}, error_code)
ForbiddenException(detail, error_code) ==
    APIException(403, detail, NoHeaders, error_code)
NotFoundException(detail, error_code) ==
    APIException(404, detail, NoHeaders, error_code)
ConflictException(detail, error_code) ==
    APIException(409, detail, NoHeaders, error_code)

\* the errors of the taxonomy that the handlers and dependencies raise (with
\* the details they pass), and the specific Unauthorized and Forbidden
\* classes no handler raises
Taxonomy ==
    {UnauthorizedException(d, "UNAUTHORIZED") :
        d \in {"Invalid token", "Not authenticated", "User account is disabled",
               "API key required"}}
    \cup {UnauthorizedException("Invalid email or password", "INVALID_CREDENTIALS"),
          UnauthorizedException("Two-factor authentication required", "2FA_REQUIRED"),
          UnauthorizedException("Invalid two-factor authentication code",
                                "INVALID_2FA_CODE"),
          UnauthorizedException("Token has expired", "TOKEN_EXPIRED"),
          UnauthorizedException("Invalid token", "INVALID_TOKEN"),
          ForbiddenException("Email address is not verified", "EMAIL_NOT_VERIFIED"),
          ForbiddenException("Account has been disabled", "ACCOUNT_DISABLED"),
          NotFoundException("User not found", "USER_NOT_FOUND"),
          NotFoundException("File not found", "FILE_NOT_FOUND"),
          BadRequestException("Current password is incorrect", "INVALID_PASSWORD")}
    \cup {ForbiddenException("You don't have permission to " \o action,
                             "PERMISSION_DENIED") :
            action \in {"view this file", "update this file", "delete this file",
                        "download this file", "share this file",
                        "Admin access required", "Moderator access required"}}
    \cup {NotFoundException("User " \o ToString(user_id) \o " not found",
                            "USER_NOT_FOUND") : user_id \in 1..MaxUsers}
    \cup {NotFoundException("File " \o ToString(file_id) \o " not found",
                            "FILE_NOT_FOUND") : file_id \in 1..MaxFiles}
    \cup {ConflictException("User with email " \o email \o " already exists",
                            "EMAIL_EXISTS") : email \in Emails}
    \cup {BadRequestException(validate_password(password)[2], "INVALID_PASSWORD") :
            password \in {WeakPw, ShortPw}}
    \cup {BadRequestException("File size " \o ToString(file_size)
                                \o " bytes exceeds maximum allowed size "
                                \o ToString(MaxUploadSize) \o " bytes",
                              "FILE_TOO_LARGE") :
            file_size \in MaxUploadSize + 1 .. MaxUploadSize + 2}
    \cup {ForbiddenException("Insufficient storage. Required: "
                                \o ToString(required) \o " bytes, Available: "
                                \o ToString(available) \o " bytes",
                             "INSUFFICIENT_STORAGE") :
            required \in 1..MaxUploadSize, available \in {0}}

\* str(request.url)
Urls == {"http://cad.io/api/v1/auth/login", "http://cad.io/api/v1/users/me",
         "http://cad.io/api/v1/files/1", "http://cad.io/api/v1/files/upload"}

\* @app.exception_handler(APIException): the JSONResponse is built from the
\* status code and the body alone, so it carries no header of the error
api_exception_handler(url, exc) ==
    /\ resp' = [Response("error", exc.status_code, exc.detail)
                  EXCEPT !.req = <<exc, url>>]
               @@ [content |-> [error |-> exc.error_code, detail |-> exc.detail,
                                path |-> url],
                   headers |-> NoHeaders]
    /\ UNCHANGED <<now, dbvars, access_tokens, logged_out, requests, outbox,
                   pending, sessions>>

(***************************************************************************)
(* Errors of the taxonomy raised while requests to several URLs are        *)
(* handled.                                                                *)
(***************************************************************************)
NextErrors ==
    \/ Tick
    \/ \E url \in Urls, exc \in Taxonomy : api_exception_handler(url, exc)

SpecErrors == InitTokens /\ [][NextErrors]_vars

(***************************************************************************)
(* validate_password applied to passwords made of any choice of one        *)
(* character per class, followed by filler that belongs to no class.       *)
(***************************************************************************)
RECURSIVE Pad(_)
Pad(n) == IF n = 0 THEN <<>> ELSE <<"~">> \o Pad(n - 1)

ClassChars == <<"Q", "q", "7", "?">>
RECURSIVE Pick(_, _)
Pick(classes, i) ==
    IF i > Len(ClassChars) THEN <<>>
    ELSE (IF i \in classes THEN <<ClassChars[i]>> ELSE <<>>) \o Pick(classes, i + 1)

PasswordInputs ==
    {Pad(n) \o Pick(classes, 1) : n \in 0..MaxPad,
                                  classes \in SUBSET (1..Len(ClassChars))}

\* a caller (register, change_password, confirm_password_reset) asks for the
\* verdict on a password
password_validated(password) ==
    /\ resp' = [Response("validate_password", 0, validate_password(password)[2])
                  EXCEPT !.req = <<password, validate_password(password)>>]
    /\ UNCHANGED <<now, dbvars, access_tokens, logged_out, requests, outbox,
                   pending, sessions>>

NextPassword == \E password \in PasswordInputs : password_validated(password)

SpecPassword == Init /\ [][NextPassword]_vars

(***************************************************************************)
(* api/deps.py: PaginationParams.  The class is injected with Depends(), so *)
(* page, per_page and max_per_page are all read from the query string.     *)
(***************************************************************************)
Pages == -1..MaxPage
PerPages == {-1, 0, 1, 2, DefaultPerPage, DefaultMaxPerPage - 1,
             DefaultMaxPerPage, DefaultMaxPerPage + 1, 5 * DefaultMaxPerPage}
MaxPerPages == {DefaultMaxPerPage, 5 * DefaultMaxPerPage, 0}

\* a listing request (get_user_files, get_all_users) has its pagination
\* parameters built from the query string
pagination_built(page, per_page, max_per_page) ==
    /\ resp' = [Response("pagination", 0, "")
                  EXCEPT !.req = <<page, per_page, max_per_page,
                                   PaginationParams(page, per_page, max_per_page)>>]
    /\ UNCHANGED <<now, dbvars, access_tokens, logged_out, requests, outbox,
                   pending, sessions>>

NextPagination ==
    \E page \in Pages, per_page \in PerPages, max_per_page \in MaxPerPages :
        pagination_built(page, per_page, max_per_page)

SpecPagination == Init /\ [][NextPagination]_vars

(***************************************************************************)
(* core/database.py: get_db.  A request is handled between the entry into  *)
(* the generator (SessionLocal(), yield) and its exit (finally).           *)
(***************************************************************************)
\* db.close() written after the yield without try/finally: skipped when the
\* handler raises
ClosedOnReturnOnly(raised) == ~raised

\* "try: yield db finally: db.close()": the session is closed on every exit
ClosedOnExit(raised) == TRUE

\* a request arrives at worker w: get_db is entered once for the request,
\* db = SessionLocal() makes a new session, which is yielded to the handler
\* and its dependencies
get_db_enter(w) ==
    /\ sessions.of[w] = 0
    /\ sessions.made < MaxSessions
    /\ sessions' = [made |-> sessions.made + 1,
                    open |-> sessions.open \cup {sessions.made + 1},
                    of |-> [sessions.of EXCEPT ![w] = sessions.made + 1]]
    /\ resp' = Idle
    /\ UNCHANGED <<now, dbvars, access_tokens, logged_out, requests, outbox,
                   pending>>

\* the request of worker w finishes, the handler having returned or raised:
\* the generator is left through its finally clause
get_db_exit(w, raised) ==
    /\ sessions.of[w] # 0
    /\ sessions' = [sessions EXCEPT
                      !.open = IF ClosedOnExit(raised) THEN @ \ {sessions.of[w]}
                               ELSE @,
                      !.of = [@ EXCEPT ![w] = 0]]
    /\ resp' = [Response("request", IF raised THEN 500 ELSE 200, "")
                  EXCEPT !.req = <<w, sessions.of[w], raised>>]
    /\ UNCHANGED <<now, dbvars, access_tokens, logged_out, requests, outbox,
                   pending>>

handler_returned(w) == get_db_exit(w, FALSE)
handler_raised(w) == get_db_exit(w, TRUE)

NextSessions ==
    \/ \E w \in Workers : get_db_enter(w)
    \/ \E w \in Workers : handler_returned(w)
    \/ \E w \in Workers : handler_raised(w)

SpecSessions == Init /\ [][NextSessions]_vars

(***************************************************************************)
(* Registration on an empty database, one request at a time.               *)
(***************************************************************************)
BodyRoles == {<<>>, <<"admin">>, <<"moderator">>, <<"owner">>}
BodyActives == {<<>>, <<FALSE>>}

NextRegister ==
    \E email \in Emails, password \in {StrongPw, WeakPw},
       password_confirm \in {StrongPw, OtherPw},
       role \in BodyRoles, active \in BodyActives :
         register(email, password, password_confirm, role, active)

SpecRegister == Init /\ [][NextRegister]_vars

(***************************************************************************)
(* Registration on an empty database by two workers whose lookups and      *)
(* commits interleave.                                                     *)
(***************************************************************************)
NextWorkers ==
    \/ \E w \in Workers, email \in Emails, role \in {<<>>, <<"admin">>},
          active \in BodyActives :
            register_select(w, email, StrongPw, StrongPw, role, active)
    \/ \E w \in Workers : register_commit(w)

SpecWorkers == Init /\ [][NextWorkers]_vars

(***************************************************************************)
(* Password reset: requests for known and unknown addresses, and           *)
(* confirmations with the mailed tokens, as time passes.                   *)
(***************************************************************************)
ResetEmails == Emails \cup {"eve@cad.io"}
NewPasswords == {OtherPw, WeakPw, ShortPw}

NextReset ==
    \/ Tick
    \/ \E email \in ResetEmails, emails_enabled \in BOOLEAN :
            request_password_reset(email, emails_enabled)
    \/ \E token \in outbox \cup {Garbage}, new_password \in NewPasswords,
          new_password_confirm \in NewPasswords :
            confirm_password_reset(token, new_password, new_password_confirm)

SpecReset == InitTokens /\ [][NextReset]_vars

(***************************************************************************)
(* Token types: two logged-in users present access, refresh and password   *)
(* reset tokens to each of the three operations that take a token.         *)
(***************************************************************************)
AnyTokens == IssuedTokens \cup outbox \cup {Garbage}

NextTokenTypes ==
    \/ Tick
    \/ request_password_reset(Ann.email, TRUE)
    \/ \E token \in AnyTokens :
            get_current_user_profile([token |-> token, api_key |-> NoKey])
    \/ \E token \in AnyTokens : refresh_token(token)
    \/ \E token \in AnyTokens : confirm_password_reset(token, OtherPw, OtherPw)

SpecTokenTypes == InitFiles /\ [][NextTokenTypes]_vars

(***************************************************************************)
(* Claims about the token lifecycle (SpecTokens).                          *)
(***************************************************************************)
\* the stored RefreshToken row of a token string is there and revoked
StoredRevoked(token) ==
    \E rt \in refresh_tokens : rt.token = token /\ rt.revoked

\* C1: once logout has revoked a stored refresh token, every later refresh
\* with that token string fails with 401 "Invalid refresh token", and in
\* every later state the stored row is still there and still revoked.
C1_RevokedTokenNeverRefreshes ==
    [][/\ (resp'.op = "refresh" /\ resp'.tok \in logged_out)
            => (resp'.status = 401 /\ resp'.detail = "Invalid refresh token")
       /\ \A token \in logged_out : StoredRevoked(token)'
       /\ logged_out \subseteq logged_out']_vars

\* a refresh was refused for a revoked token whose signature, JWT expiry and
\* stored expiry are still good and whose user is active
C1_Witness ==
    /\ resp.op = "refresh"
    /\ resp.status = 401
    /\ resp.tok \in logged_out
    /\ DecodeOk(resp.tok)
    /\ \E rt \in refresh_tokens : rt.token = resp.tok /\ rt.expires_at > now
    /\ \E u \in users : u.email = resp.tok.sub /\ u.is_active

\* everything the claim asks of a token before refresh may answer 200
RefreshConditions(token) ==
    /\ token.sig
    /\ token.exp >= now
    /\ token.type = "refresh"
    /\ token.sub # ""
    /\ \E rt \in refresh_tokens :
          rt.token = token /\ ~rt.revoked /\ rt.expires_at > now
    /\ \E u \in users : u.email = token.sub /\ u.is_active

\* C2: refresh returns a new access token only if the token decodes with
\* type refresh and a subject, a stored row with that token string exists,
\* is not revoked and expires in the future, and the subject's user exists
\* and is active (conditions read in the state the request found).
C2_RefreshOnlyIfAllHold ==
    [][(resp'.op = "refresh" /\ resp'.status = 200)
          => (RefreshConditions(resp'.tok) /\ resp'.access # NoToken
              /\ resp'.access \in access_tokens')]_vars

\* a refresh succeeded at a later time than the login that issued the token
C2_Witness ==
    /\ resp.op = "refresh"
    /\ resp.status = 200
    /\ resp.access.type = "access"
    /\ resp.access.exp > resp.tok.exp - RefreshTokenExpire + AccessTokenExpire

\* C3: every failing refresh answers exactly 401 "Invalid refresh token",
\* whatever the cause, and changes no stored state.
C3_RefreshFailuresAreUniform ==
    [][(resp'.op = "refresh" /\ resp'.status # 200)
          => /\ [resp' EXCEPT !.tok = NoToken]
                   = Response("refresh", 401, "Invalid refresh token")
             /\ UNCHANGED dbvars]_vars

\* a refresh failed although token and stored row are good: the user is inactive
C3_Witness ==
    /\ resp.op = "refresh"
    /\ resp.status = 401
    /\ DecodeOk(resp.tok)
    /\ resp.tok.type = "refresh"
    /\ \E rt \in refresh_tokens : rt.token = resp.tok /\ is_valid(rt)
    /\ \E u \in users : u.email = resp.tok.sub /\ ~u.is_active

(***************************************************************************)
(* Claims about storage accounting (SpecUpload).                           *)
(***************************************************************************)
\* the upload the response answers passed the extension and size checks and
\* would take its user over the quota
OverQuotaUpload(r) ==
    /\ r.op = "upload"
    /\ r.uid # 0
    /\ FileExt(r.req[1]) \in AllowedExtensions
    /\ r.req[2] <= MaxUploadSize
    /\ UserById(r.uid).storage_used + r.req[2] > UserById(r.uid).storage_quota

\* C4: an upload with storage_used + size > storage_quota fails with
\* InsufficientStorage (403), creates no FileRecord and leaves storage_used
\* unchanged
C4_OverQuotaUploadRejected ==
    [][OverQuotaUpload(resp')
          => /\ resp'.status = 403
             /\ resp'.detail = "Insufficient storage"
             /\ files' = files
             /\ users' = users]_vars

\* C5: a successful upload adds exactly one FileRecord, owned by the
\* uploader, of the uploaded size and in status pending, and increases that
\* user's storage_used by exactly that size; no other user row changes
C5_UploadAddsOneRecordAndItsSize ==
    [][(resp'.op = "upload" /\ resp'.status = 200)
          => \E f \in files' :
                /\ f \notin files
                /\ files' = files \cup {f}
                /\ f.id = resp'.fid
                /\ FileById(f.id).id = 0
                /\ f.user_id = resp'.uid
                /\ f.status = "pending"
                /\ f.size = resp'.req[2]
                /\ users' = UpdateUser(UserById(f.user_id),
                               [UserById(f.user_id) EXCEPT
                                  !.storage_used = @ + f.size])]_vars

\* an upload has just brought its user from below the quota to exactly the quota
C5_Witness ==
    /\ resp.op = "upload"
    /\ resp.status = 200
    /\ resp.req[2] = 1
    /\ UserById(resp.uid).storage_used = UserById(resp.uid).storage_quota
    /\ Cardinality({f \in files : f.user_id = resp.uid}) = 2

(***************************************************************************)
(* Claims about file access control (SpecFiles).                           *)
(***************************************************************************)
OwnerOps == {"update_file", "delete_file", "share_file"}
ViewOps == {"get_file", "download"}

\* C6: update, delete and share of a file succeed only for its owner; any
\* other authenticated user gets 403, also on a public file and also as an
\* admin; an id with no file gets 404; in both cases nothing changes
C6_OnlyOwnerModifies ==
    [][(resp'.op \in OwnerOps /\ resp'.uid # 0)
          => LET file_record == FileById(resp'.target) IN
             /\ file_record.id = 0
                  => (resp'.status = 404 /\ UNCHANGED dbvars)
             /\ (file_record.id # 0 /\ file_record.user_id # resp'.uid)
                  => (resp'.status = 403 /\ UNCHANGED dbvars)
             /\ resp'.status = 200
                  => (file_record.id # 0 /\ file_record.user_id = resp'.uid)]_vars

\* an admin who is not the owner was refused the update of a public file
C6_Witness ==
    /\ resp.op = "update_file"
    /\ resp.status = 403
    /\ UserById(resp.uid).role = "admin"
    /\ FileById(resp.target).visibility = "public"
    /\ FileById(resp.target).user_id # resp.uid

\* C7: metadata and download of a file are served only to its owner or when
\* its visibility is public; another user gets 403 on a private or shared
\* file, and no file is served
C7_OnlyOwnerOrPublicViews ==
    [][(resp'.op \in ViewOps /\ resp'.uid # 0)
          => LET file_record == FileById(resp'.target) IN
             /\ resp'.status = 200
                  => /\ file_record.id # 0
                     /\ \/ file_record.user_id = resp'.uid
                        \/ file_record.visibility = "public"
             /\ (/\ file_record.id # 0
                 /\ file_record.user_id # resp'.uid
                 /\ file_record.visibility \in {"private", "shared"})
                  => (resp'.status = 403 /\ resp'.fid = 0 /\ UNCHANGED dbvars)]_vars

\* another user was refused the download of a file its owner has shared
C7_Witness ==
    /\ resp.op = "download"
    /\ resp.status = 403
    /\ FileById(resp.target).visibility = "shared"
    /\ FileById(resp.target).share_token # NoShare
    /\ FileById(resp.target).user_id # resp.uid

(***************************************************************************)
(* Claims about administration (SpecAdmin).                                *)
(***************************************************************************)
AdminOps == {"list_users", "get_user", "activate", "deactivate"}

\* C8: listing users, reading a user by id, activating and deactivating a
\* user succeed only for a requester whose role is admin; a requester with
\* role user or moderator gets 403, and no user row (so no is_active flag)
\* changes in a request that did not succeed
C8_AdminOnly ==
    [][resp'.op \in AdminOps
          => /\ resp'.status = 200 => UserById(resp'.uid).role = "admin"
             /\ (resp'.uid # 0 /\ UserById(resp'.uid).role \in {"user", "moderator"})
                  => (resp'.status = 403 /\ users' = users)
             /\ users' # users
                  => /\ resp'.status = 200
                     /\ resp'.op \in {"activate", "deactivate"}
                     /\ users' = UpdateUser(UserById(resp'.target),
                                    [UserById(resp'.target) EXCEPT
                                       !.is_active = (resp'.op = "activate")])]_vars

\* a moderator was refused the deactivation of a user
C8_Witness ==
    /\ resp.op = "deactivate"
    /\ resp.status = 403
    /\ UserById(resp.uid).role = "moderator"
    /\ \A u \in users : u.is_active

(***************************************************************************)
(* Claims about two-factor authentication (SpecTwoFactor).                 *)
(***************************************************************************)
\* the code is the one-time code of the secret for a time step at most one
\* away from the present
CodeOf(secret, code) ==
    /\ code # NoCode
    /\ code[1] = secret
    /\ code[2] \in {now - 1, now, now + 1}

\* C9: for a user with two-factor enabled, a login with the right password
\* and no code gets "Two-factor authentication required", one with a code
\* that does not verify gets "Invalid two-factor authentication code", in
\* both cases no RefreshToken is created and last_login is not updated; a
\* wrong password gets "Invalid email or password" whatever the code
C9_LoginNeedsTheCode ==
    [][(resp'.op = "login" /\ UserByEmail(resp'.req[1]).id # 0
          /\ UserByEmail(resp'.req[1]).two_factor_enabled)
          => LET user == UserByEmail(resp'.req[1])
                 password_ok == user.hashed_password = get_password_hash(resp'.req[2])
                 code == resp'.req[3]
             IN
             /\ ~password_ok
                  => (resp'.status = 401 /\ resp'.detail = "Invalid email or password")
             /\ (password_ok /\ code = NoCode)
                  => /\ resp'.status = 401
                     /\ resp'.detail = "Two-factor authentication required"
             /\ (password_ok /\ code # NoCode /\ ~CodeOf(user.two_factor_secret, code))
                  => /\ resp'.status = 401
                     /\ resp'.detail = "Invalid two-factor authentication code"
             /\ resp'.status # 200
                  => (refresh_tokens' = refresh_tokens /\ users' = users)]_vars

\* a login with the right password and a code of the right secret, but of a
\* time step too old, was refused
C9_Witness ==
    /\ resp.op = "login"
    /\ resp.status = 401
    /\ resp.detail = "Invalid two-factor authentication code"
    /\ UserById(resp.uid).two_factor_enabled
    /\ resp.req[3][1] = UserById(resp.uid).two_factor_secret
    /\ resp.req[3][2] < now - 1

\* C10: verification sets two_factor_enabled only for a user with a stored
\* secret and a code that verifies against it; without a stored secret the
\* answer is 400, with a wrong code "Invalid two-factor authentication
\* code", and in both cases the flag and the secret stay as they were
C10_VerifyEnablesOnlyWithTheCode ==
    [][(resp'.op = "2fa_verify" /\ resp'.uid # 0)
          => LET user == UserById(resp'.uid)
                 code == resp'.req[1]
             IN
             /\ user.two_factor_secret = NoSecret
                  => (resp'.status = 400 /\ users' = users)
             /\ (user.two_factor_secret # NoSecret
                 /\ ~CodeOf(user.two_factor_secret, code))
                  => /\ resp'.status = 401
                     /\ resp'.detail = "Invalid two-factor authentication code"
                     /\ users' = users
             /\ resp'.status = 200
                  => /\ user.two_factor_secret # NoSecret
                     /\ CodeOf(user.two_factor_secret, code)
                     /\ users' = UpdateUser(user,
                                    [user EXCEPT !.two_factor_enabled = TRUE])]_vars

\* a verification with the code of another secret was refused and the flag
\* stayed off
C10_Witness ==
    /\ resp.op = "2fa_verify"
    /\ resp.detail = "Invalid two-factor authentication code"
    /\ resp.req[1] # NoCode
    /\ UserById(resp.uid).two_factor_secret \in Secrets \ {resp.req[1][1]}
    /\ resp.req[1][2] = now
    /\ ~UserById(resp.uid).two_factor_enabled

\* C11: a successful set-up stores the secret it returns on the requesting
\* user and changes nothing else, two_factor_enabled included; the flag is
\* switched on only by a successful verification; and a login of a user
\* whose flag is off succeeds on the password alone, whatever secret is stored
C11_SetupStoresSecretOnly ==
    [][/\ (resp'.op = "2fa_setup" /\ resp'.status = 200)
            => /\ resp'.detail \in Secrets
               /\ users' = UpdateUser(UserById(resp'.uid),
                              [UserById(resp'.uid) EXCEPT
                                 !.two_factor_secret = resp'.detail])
               /\ \A u \in users :
                     UserById(u.id)'.two_factor_enabled = u.two_factor_enabled
               /\ UNCHANGED <<refresh_tokens, files, disk>>
       /\ (resp'.op = "2fa_setup" /\ resp'.status # 200) => UNCHANGED dbvars
       /\ \A u \in users :
             (~u.two_factor_enabled /\ UserById(u.id)'.id # 0
                /\ UserById(u.id)'.two_factor_enabled)
             => (resp'.op = "2fa_verify" /\ resp'.status = 200 /\ resp'.uid = u.id)
       /\ (resp'.op = "login" /\ UserByEmail(resp'.req[1]).id # 0
              /\ ~UserByEmail(resp'.req[1]).two_factor_enabled
              /\ verify_password(resp'.req[2],
                                 UserByEmail(resp'.req[1]).hashed_password))
            => resp'.status = 200]_vars

\* a user who has set up a secret and not verified it has logged in without
\* a code
C11_Witness ==
    /\ resp.op = "login"
    /\ resp.status = 200
    /\ resp.req[3] = NoCode
    /\ UserById(resp.uid).two_factor_secret \in Secrets
    /\ ~UserById(resp.uid).two_factor_enabled

(***************************************************************************)
(* Claims about the rate limiter (SpecRate).                               *)
(***************************************************************************)
\* the recorded timestamps of a key that are newer than now - window_seconds
Newer(key, window_seconds) ==
    {i \in 1..Len(requests[key]) : requests[key][i] > now - window_seconds}

\* C12: is_allowed returns true and records the time of the call exactly
\* when fewer than max_requests recorded timestamps of the key are newer than
\* now minus window_seconds; otherwise it returns false and records nothing;
\* the timestamps of every other key stay as they were
C12_AllowedIffBelowLimit ==
    [][resp'.op = "is_allowed"
          => LET key == resp'.req[1]
                 max_requests == resp'.req[2]
                 newer == Newer(key, resp'.req[3])
                 allowed == resp'.req[4]
             IN
             /\ allowed <=> Cardinality(newer) < max_requests
             /\ allowed
                  => /\ Len(requests'[key]) = Cardinality(newer) + 1
                     /\ requests'[key][Len(requests'[key])] = now
             /\ ~allowed => Len(requests'[key]) = Cardinality(newer)
             /\ \A i \in 1..Cardinality(newer) :
                   requests'[key][i] > now - resp'.req[3]
             /\ \A other \in ClientKeys \ {key} : requests'[other] = requests[other]
             /\ UNCHANGED dbvars]_vars

\* the fourth call inside the window, with a limit of three, was refused
C12_Witness ==
    /\ resp.op = "is_allowed"
    /\ resp.req[2] = 3
    /\ resp.req[3] = RateLimitPeriod
    /\ resp.req[4] = FALSE
    /\ Len(requests[resp.req[1]]) = 3
    /\ \A i \in 1..3 : requests[resp.req[1]][i] = now

(***************************************************************************)
(* Claims about credential resolution (SpecCredentials).                   *)
(***************************************************************************)
\* the bearer token is signed, unexpired, of type access, and names an
\* active user
GoodBearer(token) ==
    /\ token.sig
    /\ token.exp >= now
    /\ token.type = "access"
    /\ \E u \in users : u.email = token.sub /\ u.is_active

\* the active user whose stored hash is the hash of the key, if any
KeyHolders(api_key) ==
    {u \in users : api_key # NoKey /\ u.api_key = hash_api_key(api_key) /\ u.is_active}

\* C13: a request that carries a bearer token is resolved by the token alone:
\* if the token is invalid, expired or not an access token the answer is 401
\* whatever API key comes with it, and if it is good the user is the token's;
\* the API key decides only when no token is supplied
C13_TokenBeforeApiKey ==
    [][resp'.op = "me"
          => LET cred == resp'.req[1] IN
             /\ (cred.token # NoToken /\ ~GoodBearer(cred.token))
                  => resp'.status = 401
             /\ (cred.token # NoToken /\ GoodBearer(cred.token))
                  => (resp'.status = 200
                      /\ UserById(resp'.uid).email = cred.token.sub)
             /\ cred.token = NoToken
                  => /\ resp'.status = 200 <=> KeyHolders(cred.api_key) # {}
                     /\ resp'.status = 200 => UserById(resp'.uid) \in KeyHolders(cred.api_key)
                     /\ resp'.status # 200 => resp'.status = 401]_vars

\* a request with an expired access token and the API key of an active user
\* was refused
C13_Witness ==
    /\ resp.op = "me"
    /\ resp.status = 401
    /\ resp.req[1].token.type = "access"
    /\ resp.req[1].token.sig
    /\ resp.req[1].token.exp < now
    /\ KeyHolders(resp.req[1].api_key) # {}

(***************************************************************************)
(* Claims about logout (SpecTokens).                                       *)
(***************************************************************************)
\* C17: logout always answers 200; the stored refresh token equal to the
\* supplied one, if any, becomes revoked, every other refresh token and every
\* user stays as it was; with no token or an unknown one nothing changes
C17_LogoutRevokesOnlyTheSuppliedToken ==
    [][resp'.op = "logout"
          => /\ resp'.status = 200
             /\ resp'.detail = "Successfully logged out"
             /\ refresh_tokens' =
                   {IF rt.token = resp'.tok THEN [rt EXCEPT !.revoked = TRUE]
                    ELSE rt : rt \in refresh_tokens}
             /\ UNCHANGED <<users, files, disk>>
             /\ (resp'.tok = NoToken \/ \A rt \in refresh_tokens : rt.token # resp'.tok)
                   => UNCHANGED dbvars]_vars

\* a user holding two refresh tokens logged out with one of them: that one
\* is revoked, the other is not
C17_Witness ==
    /\ resp.op = "logout"
    /\ \E rt \in refresh_tokens :
          /\ rt.token = resp.tok
          /\ rt.revoked
          /\ \E other \in refresh_tokens :
                /\ other.user_id = rt.user_id
                /\ other.id # rt.id
                /\ ~other.revoked

(***************************************************************************)
(* Claims about token types (SpecTokenTypes).                              *)
(***************************************************************************)
\* signed with the key and not expired
Live(token) == token.sig /\ token.exp >= now

\* C14: each operation that takes a token accepts only a token of its own
\* type: bearer authentication only access, refresh only refresh, confirm
\* password reset only password_reset; a signed, unexpired token of another
\* type is refused (401, 401 and 400) and changes nothing
C14_TokenTypeMatchesOperation ==
    [][/\ resp'.op = "me"
            => LET token == resp'.req[1].token IN
               /\ (resp'.status = 200 /\ token # NoToken) => token.type = "access"
               /\ (Live(token) /\ token.type \in {"refresh", "password_reset"})
                     => (resp'.status = 401 /\ UNCHANGED dbvars)
       /\ resp'.op = "refresh"
            => /\ resp'.status = 200 => resp'.tok.type = "refresh"
               /\ (Live(resp'.tok) /\ resp'.tok.type \in {"access", "password_reset"})
                     => (resp'.status = 401 /\ UNCHANGED dbvars)
       /\ resp'.op = "password_reset_confirm"
            => LET token == resp'.req[1] IN
               /\ resp'.status = 200 => token.type = "password_reset"
               /\ (Live(token) /\ token.type \in {"access", "refresh"})
                     => (resp'.status = 400 /\ UNCHANGED dbvars)]_vars

\* an unexpired refresh token was presented to confirm a password reset and
\* refused
C14_Witness ==
    /\ resp.op = "password_reset_confirm"
    /\ resp.status = 400
    /\ Live(resp.req[1])
    /\ resp.req[1].type = "refresh"
    /\ resp.req[2] = resp.req[3]
    /\ validate_password(resp.req[2])[1]
    /\ UserByEmail(resp.req[1].sub).hashed_password = get_password_hash(StrongPw)

(***************************************************************************)
(* Claims about password reset (SpecReset).                                *)
(***************************************************************************)
\* C15: a password reset request is answered with status 200 and one fixed
\* message whether or not the address belongs to a user, and changes no
\* stored record
C15_ResetRequestTellsNothing ==
    [][resp'.op = "password_reset"
          => /\ resp'.status = 200
             /\ resp'.detail = "If the email exists, a password reset link has been sent"
             /\ [resp' EXCEPT !.req = <<>>]
                   = Response("password_reset", 200,
                        "If the email exists, a password reset link has been sent")
             /\ UNCHANGED dbvars]_vars

\* a request for an address of no user was answered, after one for a user's
\* address had a token mailed
C15_Witness ==
    /\ resp.op = "password_reset"
    /\ resp.status = 200
    /\ UserByEmail(resp.req[1]).id = 0
    /\ outbox # {}

\* the password passes the strength policy
Strong(password) ==
    /\ Len(password) >= 8
    /\ HasUpper(password) /\ HasLower(password)
    /\ HasDigit(password) /\ HasSpecial(password)

\* the token is signed, unexpired and of type password_reset
ResetTokenVerifies(token) ==
    token.sig /\ token.exp >= now /\ token.type = "password_reset"

\* C16: a confirmation replaces the password hash of the token's subject,
\* and of no one else, only when the two passwords match, the token
\* verifies and the password passes the policy; the match is checked before
\* the token and the token before the policy; a token that does not verify
\* gives 400 "Invalid or expired reset token", a weak password gives 400 with
\* the policy's reason; no failure changes any user
C16_ResetReplacesHashOnlyWhenAllHold ==
    [][resp'.op = "password_reset_confirm"
          => LET token == resp'.req[1]
                 new_password == resp'.req[2]
                 matches == resp'.req[2] = resp'.req[3]
                 user == UserByEmail(token.sub)
             IN
             /\ users' # users
                  => /\ matches /\ ResetTokenVerifies(token) /\ Strong(new_password)
                     /\ user.id # 0
                     /\ users' = UpdateUser(user,
                                    [user EXCEPT !.hashed_password =
                                                     get_password_hash(new_password)])
             /\ resp'.status = 200
                  => (matches /\ ResetTokenVerifies(token) /\ Strong(new_password))
             /\ ~matches
                  => /\ resp'.status \notin {200, 400}
             /\ (matches /\ Len(new_password) >= 8 /\ ~ResetTokenVerifies(token))
                  => /\ resp'.status = 400
                     /\ resp'.detail = "Invalid or expired reset token"
             /\ (matches /\ Len(new_password) >= 8 /\ ResetTokenVerifies(token)
                   /\ ~Strong(new_password))
                  => /\ resp'.status = 400
                     /\ resp'.detail = validate_password(new_password)[2]
                     /\ resp'.detail # "Password is valid"
             /\ (matches /\ ResetTokenVerifies(token) /\ Strong(new_password)
                   /\ user.id # 0)
                  => /\ resp'.status = 200
                     /\ \E u \in users' :
                           /\ u.email = token.sub
                           /\ u.hashed_password = get_password_hash(new_password)
             /\ resp'.status # 200 => UNCHANGED dbvars]_vars

\* a weak password was refused with an unexpired reset token, and the
\* subject still has the password it registered with
C16_Witness ==
    /\ resp.op = "password_reset_confirm"
    /\ resp.status = 400
    /\ resp.req[2] = WeakPw
    /\ resp.req[3] = WeakPw
    /\ ResetTokenVerifies(resp.req[1])
    /\ UserByEmail(resp.req[1].sub).hashed_password = get_password_hash(StrongPw)

(***************************************************************************)
(* Claims about registration (SpecRegister).                               *)
(***************************************************************************)
\* no two users have the same email
EmailsUnique == \A u, v \in users : u.email = v.email => u = v

\* C18: no two users ever have the same email; a registration for an email
\* that belongs to a user answers 409 and leaves every user as it was; of
\* registrations for one new email whose lookups and commits interleave, at
\* most one creates a user
C18_EmailIsUnique ==
    /\ []EmailsUnique
    /\ [][resp'.op = "register"
            => /\ (/\ UserByEmail(resp'.req.email).id # 0
                   /\ RegisterRaises(resp'.req).status \notin {422, 400, 500})
                     => (resp'.status \in {409, 500} /\ UNCHANGED dbvars)
               /\ resp'.status = 409
                     => (UserByEmail(resp'.req.email).id # 0 /\ UNCHANGED dbvars)
               /\ Cardinality(users') <= Cardinality(users) + 1
               /\ \A u \in users' \ users : \A v \in users : v.email # u.email]_vars

\* two workers had looked up the same new email before either committed;
\* the second commit was refused and one user holds the email
C18_Witness ==
    /\ resp.op = "register"
    /\ resp.status = 500
    /\ Cardinality({u \in users : u.email = resp.req.email}) = 1
    /\ RegisterRaises([resp.req EXCEPT !.email = "new@cad.io"]) = Idle

\* C19: a registration creates the user with the role and the active flag of
\* the request body, role user and active true where the body leaves them
\* out; no caller is authenticated, whatever the role
C19_RegisterTakesRoleAndActiveFromBody ==
    [][resp'.op = "register"
          => /\ resp'.status \notin {401, 403}
             /\ resp'.status = 200
                  => LET body == resp'.req IN
                     /\ users' \ users =
                           {NewUser(resp'.uid, body.email, body.password,
                              IF body.role = <<>> THEN "user" ELSE body.role[1],
                              IF body.active = <<>> THEN TRUE ELSE body.active[1])}
                     /\ (body.role # <<>> => body.role[1] \in UserRole)
                     /\ users \subseteq users'
             /\ (/\ RegisterRaises(resp'.req) = Idle
                 /\ pending = NoPending)
                  => resp'.status = 200]_vars

\* with no one logged in, a body without role and active created an active
\* user of role user, after a body with role admin and active false had
\* created an inactive admin
C19_Witness ==
    /\ resp.op = "register"
    /\ resp.status = 200
    /\ resp.req.role = <<>>
    /\ resp.req.active = <<>>
    /\ access_tokens = {}
    /\ \E u \in users : u.id = resp.uid /\ u.role = "user" /\ u.is_active
    /\ \E u \in users : u.role = "admin" /\ ~u.is_active

(***************************************************************************)
(* Claims about error responses (SpecErrors).                              *)
(***************************************************************************)
\* C20: the response to an error of the taxonomy has the error's status
\* code, the body {error: error code, detail: message, path: request URL}
\* and the error's headers, so an Unauthorized error arrives with
\* WWW-Authenticate: Bearer
C20_ErrorResponseKeepsHeaders ==
    [][resp'.op = "error"
          => LET exc == resp'.req[1]
                 url == resp'.req[2]
             IN
             /\ resp'.status = exc.status_code
             /\ resp'.content = [error |-> exc.error_code, detail |-> exc.detail,
                                 path |-> url]
             /\ resp'.headers = exc.headers
             /\ exc.status_code = 401
                  => <<"WWW-Authenticate", "Bearer">> \in resp'.headers]_vars

(***************************************************************************)
(* Claims about the password policy (SpecPassword).                        *)
(***************************************************************************)
\* the five rules in the order of the policy, with their messages
PolicyRules(password) ==
    << <<Len(password) >= 8, "Password must be at least 8 characters long">>,
       <<\E i \in DOMAIN password : password[i] \in UpperChars,
         "Password must contain at least one uppercase letter">>,
       <<\E i \in DOMAIN password : password[i] \in LowerChars,
         "Password must contain at least one lowercase letter">>,
       <<\E i \in DOMAIN password : password[i] \in DigitChars,
         "Password must contain at least one digit">>,
       <<\E i \in DOMAIN password : password[i] \in SpecialChars,
         "Password must contain at least one special character">> >>

\* C21: validate_password returns (false, message of the first rule that
\* fails) in the order length, uppercase, lowercase, digit, special, and
\* (true, "Password is valid") exactly when all five rules hold
C21_FirstFailingRuleIsReported ==
    resp.op = "validate_password"
       => LET rules == PolicyRules(resp.req[1])
              failing == {i \in 1..5 : ~rules[i][1]}
              verdict == resp.req[2]
          IN
          /\ verdict[1] = (failing = {})
          /\ failing = {} => verdict = <<TRUE, "Password is valid">>
          /\ failing # {}
               => \E i \in failing :
                     /\ \A j \in failing : i <= j
                     /\ verdict = <<FALSE, rules[i][2]>>

\* a password of eight characters or more with neither an uppercase letter
\* nor a digit is refused for the missing uppercase letter
C21_Witness ==
    /\ resp.op = "validate_password"
    /\ Len(resp.req[1]) >= 8
    /\ ~HasUpper(resp.req[1])
    /\ ~HasDigit(resp.req[1])
    /\ HasLower(resp.req[1])
    /\ resp.req[2] = <<FALSE, "Password must contain at least one uppercase letter">>

(***************************************************************************)
(* Claims about pagination (SpecPagination).                               *)
(***************************************************************************)
\* C22: the pagination parameters normalize every input: page below 1
\* becomes 1, per_page above 100 becomes 100, per_page below 1 becomes 20,
\* offset is (page - 1) * per_page of the normalized values, offset is never
\* negative and limit is always between 1 and 100
C22_PaginationNormalizesEveryInput ==
    resp.op = "pagination"
       => LET page == resp.req[1]
              per_page == resp.req[2]
              params == resp.req[4]
          IN
          /\ page < 1 => params.page = 1
          /\ page >= 1 => params.page = page
          /\ per_page > 100 => params.per_page = 100
          /\ per_page < 1 => params.per_page = 20
          /\ params.offset = (params.page - 1) * params.per_page
          /\ params.offset >= 0
          /\ params.limit >= 1 /\ params.limit <= 100

\* C23: per_page is floored at 1 when a lower value is given and capped at
\* 100 when a higher value is given
C23_PerPageFlooredAtOneCappedAtHundred ==
    resp.op = "pagination"
       => LET per_page == resp.req[2]
              params == resp.req[4]
          IN
          /\ per_page < 1 => params.per_page = 1
          /\ per_page > 100 => params.per_page = 100

(***************************************************************************)
(* Claims about file deletion (SpecUpload).                                *)
(***************************************************************************)
\* C24: a delete by the owner removes the record and lowers the owner's
\* storage_used by the record's size whether or not the file on disk could
\* be removed; the failure to remove it is not reported: the answer is 200
C24_DeleteReleasesStorageWhateverTheDisk ==
    [][(resp'.op = "delete_file" /\ resp'.uid # 0)
          => LET file_record == FileById(resp'.target)
                 owner == UserById(resp'.uid)
             IN
             (file_record.id # 0 /\ file_record.user_id = resp'.uid)
                => /\ resp'.status = 200
                   /\ resp'.detail = "File deleted successfully"
                   /\ files' = files \ {file_record}
                   /\ users' = (users \ {owner}) \cup
                         {[owner EXCEPT !.storage_used = @ - file_record.size]}
                   /\ disk' \in {disk, disk \ {file_record.path}}]_vars

\* the owner deleted a file whose removal from disk failed: the file is
\* still on disk, no record names it, and the owner's storage is released
C24_Witness ==
    /\ resp.op = "delete_file"
    /\ resp.status = 200
    /\ resp.req = <<TRUE>>
    /\ disk # {}
    /\ files = {}
    /\ UserById(resp.uid).storage_used = 0

(***************************************************************************)
(* Claims about the usage counters (SpecCounters).                         *)
(***************************************************************************)
\* the rows of files with both counters left out
WithoutCounters(file_records) ==
    {[f EXCEPT !.view_count = 0, !.download_count = 0] : f \in file_records}

\* C25: a successful get file detail adds exactly 1 to that file's
\* view_count and a successful download adds exactly 1 to its
\* download_count, each leaving the other counter and every other file
\* alone; a request that fails (no record, permission denied, file missing
\* on disk) leaves both counters unchanged; no step lowers a counter
C25_CountersCountSuccesses ==
    [][/\ \A f \in files : \A g \in files' :
             g.id = f.id => /\ g.view_count >= f.view_count
                            /\ g.download_count >= f.download_count
       /\ (resp'.op \in ViewOps /\ resp'.status # 200) => files' = files
       /\ (resp'.op = "get_file" /\ resp'.status = 200)
             => LET f == FileById(resp'.target) IN
                /\ f.id # 0
                /\ files' = (files \ {f}) \cup {[f EXCEPT !.view_count = @ + 1]}
       /\ (resp'.op = "download" /\ resp'.status = 200)
             => LET f == FileById(resp'.target) IN
                /\ f.id # 0
                /\ f.path \in disk
                /\ files' = (files \ {f}) \cup {[f EXCEPT !.download_count = @ + 1]}
       /\ (/\ resp'.op = "download" /\ resp'.uid # 0
           /\ FileById(resp'.target).id # 0
           /\ FileById(resp'.target).path \notin disk)
             => resp'.status # 200]_vars

\* a download of a viewed file was refused because the file is missing on
\* disk, and the record keeps its counters
C25_Witness ==
    /\ resp.op = "download"
    /\ resp.status = 404
    /\ FileById(resp.target).id # 0
    /\ FileById(resp.target).path \notin disk
    /\ FileById(resp.target).view_count = 1
    /\ FileById(resp.target).download_count = 1

(***************************************************************************)
(* Claims about share links (SpecShare).                                   *)
(***************************************************************************)
\* is_shared is what the visibility, the expiry and the clock say
SharedIffVisibleAndUnexpired ==
    \A f \in files :
        is_shared(f) <=> /\ f.visibility = "shared"
                         /\ (f.share_expires_at = NoTime \/ f.share_expires_at > now)

\* C26: is_shared holds exactly when the visibility is shared and the expiry
\* is unset or later than the current time; as time advances a shared file
\* with no expiry stays is_shared, and one with an expiry is is_shared
\* before that instant and not from it on, until a new share link is made
C26_SharedUntilExpiry ==
    /\ []SharedIffVisibleAndUnexpired
    /\ [][\A f \in files \cap files' :
             f.visibility = "shared"
                => /\ f.share_expires_at = NoTime => is_shared(f)'
                   /\ f.share_expires_at # NoTime
                        => (is_shared(f)' <=> now' < f.share_expires_at)]_vars

\* the clock reached the expiry of a share link: the file is still of
\* visibility shared and is no longer is_shared
C26_Witness ==
    /\ resp = Idle
    /\ \E f \in files :
          /\ f.visibility = "shared"
          /\ f.share_token # NoShare
          /\ f.share_expires_at = now
          /\ ~is_shared(f)

(***************************************************************************)
(* Claims about listing and search (SpecSearch).                           *)
(***************************************************************************)
ListOps == {"list_files", "search_files"}

\* the files of the user a response was made for
FilesOf(user_id) == {f \in files : f.user_id = user_id}

\* C27: list own files and advanced search return only records of the
\* requester, whatever text, filters, sort and page are given: a file of
\* another user is never among the items and never counted in total, also
\* when it is public or shared
C27_ListAndSearchAreOwnerScoped ==
    [][(resp'.op \in ListOps /\ resp'.status = 200)
          => /\ resp'.uid # 0
             /\ \A i \in DOMAIN resp'.items :
                   /\ resp'.items[i] \in files
                   /\ resp'.items[i].user_id = resp'.uid
             /\ resp'.total <= Cardinality(FilesOf(resp'.uid))
             /\ resp'.total >= Len(resp'.items)
             /\ UNCHANGED dbvars]_vars

\* a search for public files was answered with the requester's one public
\* file while another user holds a public file that matches as well
C27_Witness ==
    /\ resp.op = "search_files"
    /\ resp.status = 200
    /\ resp.req[1].visibility = <<"public">>
    /\ resp.req[1].query = <<>>
    /\ resp.req[1].tags = <<>>
    /\ resp.total = 1
    /\ Len(resp.items) = 1
    /\ \E f \in files : f.user_id # resp.uid /\ f.visibility = "public"

\* C28: with a tags filter of several tags, advanced search matches every
\* file of the requester that has at least one of the requested tags; the
\* file need not have all of them
C28_TagsFilterIsAnyOf ==
    [][(/\ resp'.op = "search_files" /\ resp'.status = 200
        /\ resp'.req[1].tags # <<>>
        /\ Len(resp'.req[1].tags[1]) > 1
        /\ resp'.req[1].query = <<>>
        /\ resp'.req[1].visibility = <<>>)
          => \A f \in FilesOf(resp'.uid) :
                (\E i \in DOMAIN f.tags : \E j \in DOMAIN resp'.req[1].tags[1] :
                    f.tags[i] = resp'.req[1].tags[1][j])
                   => \E k \in DOMAIN resp'.items : resp'.items[k] = f]_vars

(***************************************************************************)
(* Claims about database sessions (SpecSessions).                          *)
(***************************************************************************)
\* every open session is the session of exactly one request being handled
OpenSessionsHaveOneRequest ==
    /\ \A s \in sessions.open : \E w \in Workers : sessions.of[w] = s
    /\ \A w, v \in Workers :
          (sessions.of[w] # 0 /\ sessions.of[w] = sessions.of[v]) => w = v

\* C29: a session acquired through get_db is closed when its request
\* finishes, by a return or by an error; no session stays open after its
\* request and no session serves two requests
C29_SessionClosedWithItsRequest ==
    /\ []OpenSessionsHaveOneRequest
    /\ [][resp'.op = "request"
            => /\ resp'.req[2] \in sessions.open
               /\ resp'.req[2] \notin sessions'.open
               /\ \A w \in Workers : sessions'.of[w] # resp'.req[2]
               /\ \A w \in Workers : sessions'.of[w] # 0 =>
                     sessions'.of[w] \in sessions'.open]_vars

\* a handler raised while another request was being handled: its session
\* is closed, the other request's session is open
C29_Witness ==
    /\ resp.op = "request"
    /\ resp.req[3]
    /\ resp.req[2] \notin sessions.open
    /\ \E w \in Workers : sessions.of[w] # 0 /\ sessions.of[w] \in sessions.open

(***************************************************************************)
(* Claims about file types (SpecTypes).                                    *)
(***************************************************************************)
\* the suffixes that spell an allowed extension in some letter case
AllowedSpellings == {".GLB", ".glb", ".Glb", ".Gltf", ".gltf", ".GLTF"}

\* C30: an upload whose suffix, compared without regard to letter case, is
\* not an allowed extension fails with InvalidFileType before its size and
\* the quota are looked at; it writes no file, creates no record and leaves
\* storage_used unchanged; an allowed extension in any letter case passes
\* this check
C30_FileTypeCheckedFirst ==
    [][(resp'.op = "upload" /\ resp'.uid # 0)
          => /\ resp'.req[1][2] \notin AllowedSpellings
                  => /\ resp'.status = 400
                     /\ resp'.detail = "Invalid file type"
                     /\ UNCHANGED <<files, disk, users>>
             /\ resp'.req[1][2] \in AllowedSpellings
                  => resp'.detail # "Invalid file type"]_vars

\* an upload named with the suffix .EXE, larger than the size limit, was
\* refused for its type
C30_Witness ==
    /\ resp.op = "upload"
    /\ resp.uid # 0
    /\ resp.req[1][2] = ".EXE"
    /\ resp.req[2] > MaxUploadSize
    /\ resp.status = 400
    /\ resp.detail = "Invalid file type"

(***************************************************************************)
(* Claims about overlapping uploads and deletions (SpecOverlap).           *)
(***************************************************************************)
\* the stored row of the user a worker's request loaded
StoredUser(w) == UserById(pending[w].current_user.id)

\* worker w holds an upload that passed the quota check on the User it loaded,
\* and since then an upload of the same user, checked against the same
\* storage_used, has been committed; each fits the quota alone, both do not
SecondOfTwoRacingUploads(w) ==
    /\ pending[w] # NoBody
    /\ pending[w].op = "upload"
    /\ LET loaded == pending[w].current_user IN
       /\ loaded.storage_used + pending[w].file_size <= loaded.storage_quota
       /\ \E f \in files :
             /\ f.user_id = loaded.id
             /\ StoredUser(w).storage_used = loaded.storage_used + f.size
             /\ loaded.storage_used + f.size <= loaded.storage_quota
             /\ loaded.storage_used + f.size + pending[w].file_size
                    > loaded.storage_quota

\* C31: when two uploads of one user, each fitting the remaining quota alone,
\* both pass the quota check before either commits, then after both have
\* committed the user's recorded storage_used is above storage_quota
C31_RacingUploadsExceedQuota ==
    [][\A w \in Workers :
          (SecondOfTwoRacingUploads(w) /\ pending'[w] = NoBody
              /\ resp'.op = "upload" /\ resp'.status = 200)
          => \E u \in users' : /\ u.id = pending[w].current_user.id
                               /\ u.storage_used > u.storage_quota]_vars

(***************************************************************************)
(* Claims about activation (SpecActivation).                               *)
(***************************************************************************)
\* the credential names the user: by the subject of its bearer token, or,
\* when it carries no token, by its API key
CredentialOf(cred, u) ==
    \/ cred.token # NoToken /\ cred.token.sub = u.email
    \/ cred.token = NoToken /\ cred.api_key # NoKey
          /\ u.api_key = hash_api_key(cred.api_key)

\* the stored refresh token of the user that is neither revoked nor expired
LiveRefreshToken(token, u) ==
    \E rt \in refresh_tokens :
        /\ rt.token = token
        /\ rt.user_id = u.id
        /\ ~rt.revoked
        /\ rt.expires_at > now
        /\ token.exp >= now

\* C32: while a user is deactivated every request authenticated as that user,
\* by access token or by API key, fails with 401 and every refresh with the
\* user's refresh tokens fails; once the user is active again the same
\* unexpired, unrevoked tokens and the key are accepted
C32_DeactivatedUserIsLockedOut ==
    [][\A u \in users :
          /\ (resp'.op = "me" /\ CredentialOf(resp'.req[1], u))
                => IF ~u.is_active THEN resp'.status = 401
                   ELSE (resp'.req[1].token = NoToken
                            \/ resp'.req[1].token.exp >= now)
                          => (resp'.status = 200 /\ resp'.uid = u.id)
          /\ (resp'.op = "refresh" /\ resp'.tok.sub = u.email)
                => IF ~u.is_active
                   THEN resp'.status = 401 /\ access_tokens' = access_tokens
                   ELSE LiveRefreshToken(resp'.tok, u)
                          => (resp'.status = 200 /\ resp'.uid = u.id
                              /\ resp'.access.sub = u.email)]_vars

\* Bob, deactivated at the start, is active again and the access token he
\* held before the deactivation was accepted
C32_Witness ==
    /\ resp.op = "me"
    /\ resp.status = 200
    /\ resp.uid = Bob.id
    /\ resp.req[1] = BobCredential
    /\ now > 0

(***************************************************************************)
(* Claims about search by size (SpecSizes).                                *)
(***************************************************************************)
\* C33: whenever advanced search is given min_size or max_size, every file
\* returned has size >= min_size and size <= max_size, also when the bound
\* given is 0
C33_SizeBoundsHoldAlsoAtZero ==
    [][(resp'.op = "search_files" /\ resp'.status = 200)
          => LET search_request == resp'.req[1] IN
             \A i \in DOMAIN resp'.items :
                /\ search_request.min_size # <<>>
                      => resp'.items[i].size >= search_request.min_size[1]
                /\ search_request.max_size # <<>>
                      => resp'.items[i].size <= search_request.max_size[1]]_vars

(***************************************************************************)
(* Claims about the storage counter in sequential runs (SpecUpload).       *)
(***************************************************************************)
RECURSIVE SumOfSizes(_)
SumOfSizes(file_records) ==
    IF file_records = {} THEN 0
    ELSE LET f == CHOOSE f \in file_records : TRUE
         IN f.size + SumOfSizes(file_records \ {f})

\* C34: when each request completes before the next starts, from no files
\* and storage_used 0, after every upload and every delete each user's
\* storage_used is the sum of the sizes of the FileRecords the user owns,
\* and so never negative
C34_StorageUsedIsSumOfSizes ==
    \A u \in users :
        /\ u.storage_used = SumOfSizes({f \in files : f.user_id = u.id})
        /\ u.storage_used >= 0

\* a deletion has just left its user with one of two files, and storage_used
\* is the size of the file that is left
C34_Witness ==
    /\ resp.op = "delete_file"
    /\ resp.status = 200
    /\ \E f \in files :
          /\ {g \in files : g.user_id = resp.uid} = {f}
          /\ f.id # resp.target
          /\ UserById(resp.uid).storage_used = f.size
          /\ f.size > 0

(***************************************************************************)
(* Claims about the storage counter under overlap (SpecOverlap).           *)
(***************************************************************************)
\* what the request worker w holds adds to its user's storage_used
StorageChange(w) ==
    IF pending[w].op = "upload" THEN pending[w].file_size
    ELSE 0 - pending[w].file_record.size

\* C35: when two uploads, or an upload and a delete, of one user overlap,
\* each having loaded the User before the other commits, storage_used after
\* both commits reflects both changes: the commit of the second adds its own
\* change to what the first one stored
C35_NoStorageUpdateLost ==
    [][\A w \in Workers :
          (/\ pending[w] # NoBody
           /\ pending'[w] = NoBody
           /\ resp'.status = 200
           /\ StoredUser(w).storage_used # pending[w].current_user.storage_used)
          => \E u \in users' :
                /\ u.id = pending[w].current_user.id
                /\ u.storage_used = StoredUser(w).storage_used + StorageChange(w)]_vars

(***************************************************************************)
(* Claims about the two-factor flag and secret (SpecTwoFactorWorkers).     *)
(***************************************************************************)
\* C36: in every reachable state a user whose two_factor_enabled flag is true
\* has a two_factor_secret that is not null
C36_EnabledImpliesSecret ==
    \A u \in users : u.two_factor_enabled => u.two_factor_secret # NoSecret

\* C37: whenever a user's two_factor_enabled flag is true the stored secret is
\* the one the last successful verification checked its code against: no
\* step changes the secret of a user whose flag is true before and after it
C37_SecretFixedWhileEnabled ==
    [][\A u \in users, v \in users' :
          (u.id = v.id /\ u.two_factor_enabled /\ v.two_factor_enabled)
             => v.two_factor_secret = u.two_factor_secret]_vars

(***************************************************************************)
(* Claims about tokens and the active flag (SpecTokens).                   *)
(***************************************************************************)
\* C38: no operation issues an access token, or creates a RefreshToken
\* record, for a user whose active flag is false at that moment
C38_NoTokensForInactiveUsers ==
    [][/\ resp'.access # NoToken
           => \E u \in users : u.email = resp'.access.sub /\ u.is_active
       /\ \A rt \in refresh_tokens' :
             rt.id \notin {r.id : r \in refresh_tokens}
                => \E u \in users : u.id = rt.user_id /\ u.is_active]_vars

(***************************************************************************)
(* Claims about shared files and their tokens (SpecShare).                 *)
(***************************************************************************)
\* C39: in every reachable state every FileRecord whose visibility is shared
\* has a share_token that is not null, whichever of upload, update of the
\* metadata and creation of a share link set that visibility
C39_SharedFilesHaveToken ==
    \A f \in files : f.visibility = "shared" => f.share_token # NoShare

(***************************************************************************)
(* Claims about tokens and account deletion (SpecAccounts).                *)
(***************************************************************************)
\* the response answers a request that a token authenticated, or a refresh
\* that yielded an access token
AcceptedToken(r) == r.op \in {"me", "refresh"} /\ r.status = 200

====
